---- MODULE Spec2Model ----
(***************************************************************************)
(* Orbit / clock resolution engine of the RINEX navigation library:        *)
(* the Ephemeris data model and its accessors, the validity policy, the    *)
(* ephemeris selector, the GLONASS/SBAS propagator and the Kepler solver.  *)
(*                                                                         *)
(* Time is counted in whole seconds.  An Epoch is the number of seconds    *)
(* elapsed since the GPST reference epoch; a Duration is a signed number   *)
(* of seconds.  Floating point numbers that only ever hold integral values *)
(* in the modelled inputs are integers.                                    *)
(***************************************************************************)
EXTENDS Integers, Sequences, FiniteSets, TLC

VARIABLES
    record,        \* NAV record: sequence of [sv, epoch, eph], in key (iteration) order
    eph,           \* the Ephemeris a method is applied to
    sv,            \* satellite argument of the call
    toc,           \* time of clock argument of the call
    epoch,         \* epoch argument of the call
    ret,           \* last call: [op |-> name, out |-> returned value]
    lastSet,       \* history: for each key, the value last given to with_orbit/with_week
    m_k,           \* solver: mean anomaly (fixed point)
    ecc,           \* solver: eccentricity (fixed point)
    max_iteration, \* solver: caller supplied iteration budget
    i,             \* solver: loop counter
    e_k,           \* solver: current eccentric anomaly iterate
    e_k_lst,       \* solver: previous eccentric anomaly iterate
    pc,            \* solver: position in Ephemeris::solver
    clk,           \* clock corrector: locals of Ephemeris::clock_correction
    threads,       \* concurrent callers: for each thread, the locals of its call
    ubx,           \* RNX2UBX streamer: its fields and the reads made so far
    rtcm,          \* RNX2RTCM streamer: its iterator and the last item returned
    merge,         \* observation merge: the left and right hand side records
    signal         \* the SignalObservation a predicate is asked of

vars == <<record, eph, sv, toc, epoch, ret, lastSet,
          m_k, ecc, max_iteration, i, e_k, e_k_lst, pc, clk, threads,
          ubx, rtcm, merge, signal>>

callVars   == <<eph, sv, toc, epoch, ret>>
solverVars == <<m_k, ecc, max_iteration, i, e_k, e_k_lst, pc>>
clockVars  == <<clk>>
threadVars == <<threads>>
streamVars == <<ubx>>
rtcmVars   == <<rtcm>>
obsVars    == <<merge, signal>>

(***************************************************************************)
(* Option and Result values.                                               *)
(***************************************************************************)
None      == <<>>
Some(x)   == <<x>>
IsSome(o) == Len(o) = 1
Unwrap(o) == o[1]

Ok(x)     == [tag |-> "Ok", val |-> x, err |-> "-"]
Err(e)    == [tag |-> "Err", val |-> 0, err |-> e]
IsOk(r)   == r.tag = "Ok"
IsErr(r)  == r.tag = "Err"

Abs(x)    == IF x < 0 THEN -x ELSE x

NoCall    == [op |-> "none", out |-> None]

(***************************************************************************)
(* Constellation and SV (gnss-rs), as the engine uses them.                *)
(***************************************************************************)
Constellations ==
    {"GPS", "Glonass", "BeiDou", "QZSS", "Galileo", "IRNSS",
     "WAAS", "EGNOS", "SBAS", "Mixed"}

\* Constellation::is_sbas: any of the augmentation systems.
is_sbas(c) == c \in {"WAAS", "EGNOS", "SBAS"}

\* PRN 5 is a geostationary BeiDou vehicle, PRN 6 is not.
Prns == {5, 6}

SVs == [constellation : Constellations, prn : Prns]

\* SV::is_beidou_geo
is_beidou_geo(satellite) ==
    satellite.constellation = "BeiDou" /\ (satellite.prn < 6 \/ satellite.prn > 58)

(***************************************************************************)
(* Time scales (hifitime).  Offsets of each time scale reference epoch to  *)
(* the GPST reference epoch, in seconds.                                   *)
(***************************************************************************)
WeekSeconds == 7 * 86400

\* BDT starts on 2006-01-01T00:00:00 UTC, which is GPST week 1356 + 14 s.
TimeScaleRef(ts) ==
    CASE ts = "GPST"  -> 0
      [] ts = "QZSST" -> 0
      [] ts = "BDT"   -> 1356 * WeekSeconds + 14
      [] ts = "GST"   -> 1024 * WeekSeconds
      [] ts = "UTC"   -> 0

\* Epoch::from_time_of_week(week, nanos, ts), nanos given here in seconds.
from_time_of_week(week, seconds, ts) ==
    TimeScaleRef(ts) + week * WeekSeconds + seconds

(***************************************************************************)
(* OrbitItem: a typed value of the orbit parameter store.                  *)
(*   F64 / U32 / I8 carry a number, the health kinds carry the bits of a   *)
(*   flag word or the discriminant of an enum state.                       *)
(***************************************************************************)
F64(x) == [kind |-> "F64", v |-> x]
U32(x) == [kind |-> "U32", v |-> x]
I8(x)  == [kind |-> "I8",  v |-> x]

NumericKinds == {"F64", "U32", "I8"}

Item(kind, x) == [kind |-> kind, v |-> x]

HealthKinds ==
    {"GpsQzssl1l2l5Health", "GpsQzssl1cHealth", "GlonassHealth",
     "GeoHealth", "BdsSatH1", "BdsHealth"}

\* OrbitItem::as_xxx_flag: Some(inner) for the matching representation only.
as_flag(item, kind) == IF item.kind = kind THEN Some(item.v) ELSE None

\* Flag bits and enum states the health predicates test.
GpsQzssl1cHealth_UNHEALTHY == 1
GlonassHealth_UNHEALTHY == 1
GlonassHealth2_HEALTHY_ALMANAC == 2
BdsSatH1_UNHEALTHY == 1
BdsHealth_Healthy == 0
BdsHealth_UnhealthyTesting == 2

RECURSIVE BitAnd(_, _)
BitAnd(a, b) ==
    IF a = 0 \/ b = 0 THEN 0
    ELSE (a % 2) * (b % 2) + 2 * BitAnd(a \div 2, b \div 2)

\* bitflags intersects()
intersects(bits, mask) == BitAnd(bits, mask) # 0

\* GpsQzssl1l2l5Health::healthy: no signal is declared unhealthy.
l1l2l5_healthy(bits) == bits = 0

\* OrbitItem::as_f64: the numerical cast of the inner value.
as_f64(item) == item.v

\* OrbitItem::as_u32: `as u32` saturates a negative value to 0.
as_u32(item) == IF item.v < 0 THEN 0 ELSE item.v

(***************************************************************************)
(* Ephemeris: clock polynomial and the orbit parameter store, a map from   *)
(* (case sensitive) field names to OrbitItem.                              *)
(***************************************************************************)
Store(o) == [clock_bias |-> 0, clock_drift |-> 0, clock_drift_rate |-> 0,
             orbits |-> o]

\* #[derive(Default)]: null clock terms, empty store.
DefaultEphemeris == Store(<<>>)

Has(e, field) == field \in DOMAIN e.orbits

\* HashMap::get
orbits_get(e, field) ==
    IF field \in DOMAIN e.orbits THEN Some(e.orbits[field]) ELSE None

\* HashMap::insert on a clone of the store
orbits_insert(o, key, item) ==
    [k \in (DOMAIN o) \cup {key} |-> IF k = key THEN item ELSE o[k]]

get_orbit_field_f64(e, field) ==
    IF Has(e, field) THEN Ok(as_f64(e.orbits[field])) ELSE Err("MissingData")

week_number(e) ==
    IF Has(e, "week") THEN Ok(as_u32(e.orbits["week"])) ELSE Err("MissingData")

week_seconds(e) == get_orbit_field_f64(e, "toe")

\* with_orbit inserting into a fresh store instead of a clone of self.
with_orbit_not_cloned(e, key, item) ==
    [e EXCEPT !.orbits = orbits_insert(<<>>, key, item)]

with_orbit(e, key, item) ==
    [e EXCEPT !.orbits = orbits_insert(e.orbits, key, item)]

with_week(e, week) == with_orbit(e, "week", U32(week))

\* (seconds * 1.0E9).round() as u64: a negative number of seconds saturates to 0.
toe_nanos(seconds) == IF seconds < 0 THEN 0 ELSE seconds

\* toe without the SBAS / GLONASS rejection: the store decides.
toe_no_rejection(e, satellite) ==
    IF IsErr(week_number(e)) THEN Err("MissingData")
    ELSE IF IsErr(week_seconds(e)) THEN Err("MissingData")
    ELSE IF satellite.constellation \in {"GPS", "Galileo", "QZSS", "Glonass"}
            \/ is_sbas(satellite.constellation)
         THEN Ok(from_time_of_week(week_number(e).val,
                                   toe_nanos(week_seconds(e).val), "GPST"))
         ELSE Err("NotSupported")

\* toe that also serves IRNSS, in GPST.
toe_serving_irnss(e, satellite) ==
    IF is_sbas(satellite.constellation) THEN Err("BadOperation")
    ELSE IF satellite.constellation = "Glonass" THEN Err("BadOperation")
    ELSE IF IsErr(week_number(e)) THEN Err("MissingData")
    ELSE IF IsErr(week_seconds(e)) THEN Err("MissingData")
    ELSE LET week  == week_number(e).val
             nanos == toe_nanos(week_seconds(e).val)
         IN  CASE satellite.constellation \in {"GPS", "Galileo", "IRNSS"} ->
                      Ok(from_time_of_week(week, nanos, "GPST"))
               [] satellite.constellation = "QZSS" ->
                      Ok(from_time_of_week(week, nanos, "QZSST"))
               [] satellite.constellation = "BeiDou" ->
                      Ok(from_time_of_week(week, nanos, "BDT"))
               [] OTHER -> Err("NotSupported")

\* Ephemeris::toe
toe(e, satellite) ==
    IF is_sbas(satellite.constellation) THEN Err("BadOperation")
    ELSE IF satellite.constellation = "Glonass" THEN Err("BadOperation")
    ELSE IF IsErr(week_number(e)) THEN Err("MissingData")
    ELSE IF IsErr(week_seconds(e)) THEN Err("MissingData")
    ELSE LET week  == week_number(e).val
             nanos == toe_nanos(week_seconds(e).val)
         IN  CASE satellite.constellation \in {"GPS", "Galileo"} ->
                      Ok(from_time_of_week(week, nanos, "GPST"))
               [] satellite.constellation = "QZSS" ->
                      Ok(from_time_of_week(week, nanos, "QZSST"))
               [] satellite.constellation = "BeiDou" ->
                      Ok(from_time_of_week(week, nanos, "BDT"))
               [] OTHER -> Err("NotSupported")

\* satellite_is_healthy that trusts a record without a usable health field.
satellite_is_healthy_fail_open(e) ==
    IF ~Has(e, "health") THEN Ok(TRUE)
    ELSE IF e.orbits["health"].kind = "BdsHealth"
         THEN Ok(e.orbits["health"].v = BdsHealth_Healthy)
         ELSE Ok(e.orbits["health"].v = 0)

\* Ephemeris::satellite_is_healthy.  Err("panic") is the unwrap() of a "health2"
\* field that is not stored as GlonassHealth2.
satellite_is_healthy(e) ==
    IF ~Has(e, "health") THEN Ok(FALSE)
    ELSE LET health == e.orbits["health"]
         IN  IF IsSome(as_flag(health, "GpsQzssl1l2l5Health"))
             THEN Ok(l1l2l5_healthy(Unwrap(as_flag(health, "GpsQzssl1l2l5Health"))))
             ELSE IF IsSome(as_flag(health, "GpsQzssl1cHealth"))
             THEN Ok(~intersects(health.v, GpsQzssl1cHealth_UNHEALTHY))
             ELSE IF IsSome(as_flag(health, "GlonassHealth"))
             THEN IF Has(e, "health2")
                  THEN IF IsSome(as_flag(e.orbits["health2"], "GlonassHealth2"))
                       THEN Ok(~intersects(health.v, GlonassHealth_UNHEALTHY)
                               /\ intersects(e.orbits["health2"].v,
                                             GlonassHealth2_HEALTHY_ALMANAC))
                       ELSE Err("panic")
                  ELSE Ok(~intersects(health.v, GlonassHealth_UNHEALTHY))
             ELSE IF IsSome(as_flag(health, "GeoHealth"))
             THEN Ok(FALSE)
             ELSE IF IsSome(as_flag(health, "BdsSatH1"))
             THEN Ok(~intersects(health.v, BdsSatH1_UNHEALTHY))
             ELSE IF IsSome(as_flag(health, "BdsHealth"))
             THEN Ok(health.v = BdsHealth_Healthy)
             ELSE Ok(FALSE)

\* satellite_under_test that reads the state of any stored representation.
satellite_under_test_any_representation(e) ==
    IF ~Has(e, "health") THEN FALSE
    ELSE e.orbits["health"].v = BdsHealth_UnhealthyTesting

\* satellite_under_test that tests for the Healthy state.
satellite_under_test_wrong_state(e) ==
    IF ~Has(e, "health") THEN FALSE
    ELSE LET health == e.orbits["health"]
         IN  IF IsSome(as_flag(health, "BdsHealth"))
             THEN health.v = BdsHealth_Healthy
             ELSE FALSE

\* Ephemeris::satellite_under_test
satellite_under_test(e) ==
    IF ~Has(e, "health") THEN FALSE
    ELSE LET health == e.orbits["health"]
         IN  IF IsSome(as_flag(health, "BdsHealth"))
             THEN health.v = BdsHealth_UnhealthyTesting
             ELSE FALSE

(***************************************************************************)
(* Validity policy.                                                        *)
(***************************************************************************)
\* Duration::from_days(1.25), in seconds
SbasValidity == (5 * 86400) \div 4

validity_duration(constellation) ==
    CASE constellation \in {"GPS", "QZSS"} -> Some(7200)
      [] constellation = "Galileo"         -> Some(10800)
      [] constellation = "BeiDou"          -> Some(21600)
      [] constellation = "IRNSS"           -> Some(7200)
      [] constellation = "Glonass"         -> Some(1800)
      [] OTHER -> IF is_sbas(constellation) THEN Some(SbasValidity) ELSE None

\* is_valid with one reference point (ToC) for every constellation.
is_valid_toc_only(e, satellite, t_toc, t) ==
    IF ~IsSome(validity_duration(satellite.constellation)) THEN FALSE
    ELSE Abs(t - t_toc) < Unwrap(validity_duration(satellite.constellation))

is_valid(e, satellite, t_toc, t) ==
    LET window == validity_duration(satellite.constellation)
    IN  IF ~IsSome(window) THEN FALSE
        ELSE LET max_dtoe == Unwrap(window)
             IN  IF is_sbas(satellite.constellation)
                    \/ satellite.constellation = "Glonass"
                 THEN Abs(t - t_toc) < max_dtoe
                 ELSE IF IsOk(toe(e, satellite))
                      THEN Abs(t - toe(e, satellite).val) < max_dtoe
                      ELSE FALSE

(***************************************************************************)
(* Variables a specification does not use stay at rest.                    *)
(***************************************************************************)
RecordAtRest == record = <<>>
StoreAtRest  == lastSet = <<>>
SolverAtRest ==
    /\ m_k = 0 /\ ecc = 0 /\ max_iteration = 0
    /\ i = 0 /\ e_k = 0 /\ e_k_lst = 0 /\ pc = "idle"

\* No clock correction is being computed.
ClockIdle  == [pc |-> "idle", num_iter |-> 0, round |-> 0, dt |-> 0]
ClockAtRest == clk = ClockIdle

\* No thread is calling into the engine.
ThreadsAtRest == threads = <<>>

\* No streamer has been deployed.
StreamAtRest == ubx = <<>>

\* No RTCM streamer has been deployed.
RtcmAtRest == rtcm = <<>>

\* No observation is at hand.
ObsAtRest == merge = <<>> /\ signal = <<>>

\* A method of Ephemeris is applied to (eph, sv, toc, epoch); it borrows its
\* inputs and returns an owned value.
Call(op, out) ==
    /\ ret' = [op |-> op, out |-> out]
    /\ UNCHANGED <<record, eph, sv, toc, epoch, lastSet, solverVars, clockVars,
                 threadVars, streamVars,
                   rtcmVars, obsVars>>

(***************************************************************************)
(* SpecValid: validity_duration, toe and is_valid applied to sampled       *)
(* (ephemeris, satellite, toc, epoch) inputs.                              *)
(***************************************************************************)
\* Week counters of the sampled ephemerides: 0 .. MaxWeek
MaxWeek == 1

ToeSeconds == {-5, 0, 7200}

\* Ephemerides with and without the two fields ToE is made of.
ToeEphs ==
    {DefaultEphemeris,
     with_orbit(DefaultEphemeris, "toe", F64(0)),
     with_week(DefaultEphemeris, 0)}
    \cup {with_orbit(with_week(DefaultEphemeris, w), "toe", F64(s)) :
             w \in 0..MaxWeek, s \in ToeSeconds}

Windows == {1800, 7200, 10800, 21600, 86400, SbasValidity}

\* Offsets around every validity window, on both sides of the reference.
Deltas ==
    {0} \cup UNION {{d, d - 1, 0 - d, 1 - d} : d \in Windows}

SampleEpochs ==
    {TimeScaleRef(ts) + d : ts \in {"GPST", "BDT"}, d \in Deltas}

SampleTocs == {TimeScaleRef("GPST"), TimeScaleRef("BDT"), 7200}

InitValid ==
    /\ eph \in ToeEphs
    /\ sv \in {s \in SVs : s.prn = 5}
    /\ toc \in SampleTocs
    /\ epoch \in SampleEpochs
    /\ ret = NoCall
    /\ RecordAtRest /\ StoreAtRest /\ SolverAtRest /\ ClockAtRest
    /\ ThreadsAtRest /\ StreamAtRest
    /\ RtcmAtRest /\ ObsAtRest

CallValidityDuration == Call("validity_duration", validity_duration(sv.constellation))

CallToe == Call("toe", toe(eph, sv))

CallIsValid == Call("is_valid", is_valid(eph, sv, toc, epoch))

NextValid == CallValidityDuration \/ CallToe \/ CallIsValid

SpecValid == InitValid /\ [][NextValid]_vars

(***************************************************************************)
(* SpecHealth: the health predicates applied to sampled health fields.     *)
(***************************************************************************)
\* Sampled flag words: 0 .. MaxFlagBits
MaxFlagBits == 3

HealthItems ==
    {Item(k, b) : k \in HealthKinds \cup {"F64", "U32"}, b \in 0..MaxFlagBits}

Health2Items ==
    {Item(k, b) : k \in {"GlonassHealth2", "F64"}, b \in 0..MaxFlagBits}

HealthEphs ==
    {DefaultEphemeris}
    \cup {with_orbit(DefaultEphemeris, "health", h) : h \in HealthItems}
    \cup {with_orbit(DefaultEphemeris, "health2", h2) : h2 \in Health2Items}
    \cup {with_orbit(with_orbit(DefaultEphemeris, "health", h), "health2", h2) :
             h \in HealthItems, h2 \in Health2Items}
    \cup {with_orbit(DefaultEphemeris, "Health", h) : h \in HealthItems}

InitHealth ==
    /\ eph \in HealthEphs
    /\ sv \in {s \in SVs : s.prn = 5}
    /\ toc = 0
    /\ epoch = 0
    /\ ret = NoCall
    /\ RecordAtRest /\ StoreAtRest /\ SolverAtRest /\ ClockAtRest
    /\ ThreadsAtRest /\ StreamAtRest
    /\ RtcmAtRest /\ ObsAtRest

CallSatelliteIsHealthy == Call("satellite_is_healthy", satellite_is_healthy(eph))

CallSatelliteUnderTest == Call("satellite_under_test", satellite_under_test(eph))

NextHealth == CallSatelliteIsHealthy \/ CallSatelliteUnderTest

SpecHealth == InitHealth /\ [][NextHealth]_vars

(***************************************************************************)
(* Properties of the validity policy (checked under SpecValid).            *)
(***************************************************************************)
Window(c) == Unwrap(validity_duration(c))

\* C4: is_valid(sv, toc, epoch) is false without a validity window; for GLONASS
\* and SBAS it is true iff |epoch - toc| < window, whatever ToE is; for every
\* other constellation it is true iff toe(sv) succeeds and |epoch - toe| < window,
\* whatever toc is.
C4_IsValidTwoReferencePoints ==
    ret.op = "is_valid" =>
        LET c == sv.constellation
        IN  IF ~IsSome(validity_duration(c)) THEN ret.out = FALSE
            ELSE IF c = "Glonass" \/ is_sbas(c)
                 THEN ret.out = (Abs(epoch - toc) < Window(c))
                 ELSE ret.out = (/\ IsOk(toe(eph, sv))
                                 /\ Abs(epoch - toe(eph, sv).val) < Window(c))

\* A GPS record found valid through its ToE although the epoch is a whole
\* window or more away from its ToC.
C4_Witness ==
    /\ ret.op = "is_valid" /\ ret.out = TRUE
    /\ sv.constellation = "GPS"
    /\ Abs(epoch - toc) >= Window("GPS")

\* The validity windows as stated for each constellation, in seconds.
StatedValidity(c) ==
    CASE c \in {"GPS", "QZSS"} -> Some(7200)
      [] c = "Galileo"         -> Some(10800)
      [] c = "BeiDou"          -> Some(21600)
      [] c = "IRNSS"           -> Some(7200)
      [] c = "Glonass"         -> Some(1800)
      [] OTHER -> IF is_sbas(c) THEN Some(86400) ELSE None

\* C5: validity_duration returns 7200 s for GPS and QZSS, 10800 s for Galileo,
\* 21600 s for BeiDou, 7200 s for IRNSS, 1800 s for GLONASS, 1 day for any
\* SBAS constellation and None for any other constellation.
C5_ValidityDurationTable ==
    ret.op = "validity_duration" => ret.out = StatedValidity(sv.constellation)

\* C8: toe(sv) fails with BadOperation for every GLONASS and every SBAS
\* satellite, whatever the orbit store holds.
C8_ToeBadOperation ==
    (ret.op = "toe" /\ (sv.constellation = "Glonass" \/ is_sbas(sv.constellation)))
        => IsErr(ret.out) /\ ret.out.err = "BadOperation"

\* toe was asked for a GLONASS satellite whose store holds both week and toe.
C8_Witness ==
    /\ ret.op = "toe" /\ sv.constellation = "Glonass"
    /\ Has(eph, "week") /\ Has(eph, "toe")
    /\ IsErr(ret.out)

(***************************************************************************)
(* Properties of the health predicates (checked under SpecHealth).         *)
(***************************************************************************)
\* What the flag decoder of the stored representation reports.
DecoderReportsHealthy(e) ==
    LET h == e.orbits["health"]
    IN  CASE h.kind = "GpsQzssl1l2l5Health" -> h.v = 0
          [] h.kind = "GpsQzssl1cHealth" -> BitAnd(h.v, GpsQzssl1cHealth_UNHEALTHY) = 0
          [] h.kind = "GlonassHealth" ->
                 /\ BitAnd(h.v, GlonassHealth_UNHEALTHY) = 0
                 /\ Has(e, "health2") =>
                        BitAnd(e.orbits["health2"].v, GlonassHealth2_HEALTHY_ALMANAC) # 0
          [] h.kind = "GeoHealth" -> FALSE
          [] h.kind = "BdsSatH1" -> BitAnd(h.v, BdsSatH1_UNHEALTHY) = 0
          [] h.kind = "BdsHealth" -> h.v = BdsHealth_Healthy
          [] OTHER -> FALSE

\* C6: satellite_is_healthy is fail-closed: false when 'health' is absent or
\* stored in a representation no flag decoder knows, and true only if the
\* decoder of the stored representation reports the satellite healthy.
C6_HealthFailClosed ==
    ret.op = "satellite_is_healthy" =>
        /\ (~Has(eph, "health") \/ eph.orbits["health"].kind \notin HealthKinds)
               => (IsOk(ret.out) /\ ret.out.val = FALSE)
        /\ (IsOk(ret.out) /\ ret.out.val = TRUE)
               => (Has(eph, "health") /\ DecoderReportsHealthy(eph))

\* A health word stored as a plain number, with no unhealthy bit raised, was
\* answered: no decoder applies to it.
C6_Witness ==
    /\ ret.op = "satellite_is_healthy"
    /\ Has(eph, "health")
    /\ eph.orbits["health"].kind = "F64"
    /\ eph.orbits["health"].v = 0
    /\ IsOk(ret.out)

(***************************************************************************)
(* NAV record: a map ordered by NavKey (epoch first, then satellite), kept *)
(* as the sequence of its entries in iteration order.                      *)
(***************************************************************************)
ConstellationOrder ==
    <<"GPS", "Glonass", "BeiDou", "QZSS", "Galileo", "IRNSS",
      "WAAS", "EGNOS", "SBAS", "Mixed">>

ConstellationRank(c) ==
    CHOOSE n \in 1..Len(ConstellationOrder) : ConstellationOrder[n] = c

\* Ord for NavKey: epoch, then sv (constellation, then prn)
KeyLess(a, b) ==
    \/ a.epoch < b.epoch
    \/ /\ a.epoch = b.epoch
       /\ \/ ConstellationRank(a.sv.constellation) < ConstellationRank(b.sv.constellation)
          \/ /\ a.sv.constellation = b.sv.constellation
             /\ a.sv.prn < b.sv.prn

KeyEq(a, b) == a.epoch = b.epoch /\ a.sv = b.sv

Entry(s, t, e) == [sv |-> s, epoch |-> t, eph |-> e]

\* BTreeMap::insert: replaces the value of an existing key, keeps key order.
record_insert(rec, entry) ==
    IF \E n \in 1..Len(rec) : KeyEq(rec[n], entry)
    THEN [n \in 1..Len(rec) |-> IF KeyEq(rec[n], entry) THEN entry ELSE rec[n]]
    ELSE LET below == Cardinality({n \in 1..Len(rec) : KeyLess(rec[n], entry)})
         IN  SubSeq(rec, 1, below) \o <<entry>> \o SubSeq(rec, below + 1, Len(rec))

\* Rinex::nav_ephemeris_frames_iter: the entries in key order.
nav_ephemeris_frames_iter(rec) == rec

\* Iterator::filter_map, for a closure given as a sequence of Options.
RECURSIVE filter_map(_)
filter_map(opts) ==
    IF opts = <<>> THEN <<>>
    ELSE (IF IsSome(Head(opts)) THEN <<Unwrap(Head(opts))>> ELSE <<>>)
         \o filter_map(Tail(opts))

\* Iterator::min_by_key folds from the first item and replaces the minimum
\* only by a strictly smaller key: of several minima the first is returned.
RECURSIVE min_fold(_, _, _)
min_fold(keys, n, best) ==
    IF n > Len(keys) THEN best
    ELSE min_fold(keys, n + 1, IF keys[n] < keys[best] THEN n ELSE best)

\* A fold that also replaces the minimum by an equal key: of several minima
\* the last is returned.
RECURSIVE min_fold_last(_, _, _)
min_fold_last(keys, n, best) ==
    IF n > Len(keys) THEN best
    ELSE min_fold_last(keys, n + 1, IF keys[n] <= keys[best] THEN n ELSE best)

min_by_key_last(items, keys) ==
    IF items = <<>> THEN None ELSE Some(items[min_fold_last(keys, 2, 1)])

min_by_key(items, keys) ==
    IF items = <<>> THEN None ELSE Some(items[min_fold(keys, 2, 1)])

Triplet(t_toc, t_toe, e) == [toc |-> t_toc, toe |-> t_toe, eph |-> e]

\* The closure of the SBAS branch.
sbas_candidate(k, satellite) ==
    IF k.sv = satellite THEN Some(Triplet(k.epoch, k.epoch, k.eph)) ELSE None

\* The closure of the other branch without the validity test.
other_candidate_unchecked(k, satellite, t) ==
    IF k.sv = satellite /\ IsOk(toe(k.eph, k.sv))
    THEN Some(Triplet(k.epoch, toe(k.eph, k.sv).val, k.eph))
    ELSE None

\* The closure of the other branch.
other_candidate(k, satellite, t) ==
    IF k.sv = satellite
    THEN IF is_valid(k.eph, satellite, k.epoch, t)
         THEN IF IsOk(toe(k.eph, k.sv))
              THEN Some(Triplet(k.epoch, toe(k.eph, k.sv).val, k.eph))
              ELSE None
         ELSE None
    ELSE None

\* The selector ranking every candidate by its distance to ToC.
nav_ephemeris_selection_by_toc(rec, satellite, t) ==
    LET items == filter_map([n \in 1..Len(rec) |->
                    IF is_sbas(satellite.constellation)
                    THEN sbas_candidate(rec[n], satellite)
                    ELSE other_candidate(rec[n], satellite, t)])
    IN  min_by_key(items, [n \in 1..Len(items) |-> Abs(t - items[n].toc)])

\* Rinex::nav_ephemeris_selection
nav_ephemeris_selection(rec, satellite, t) ==
    LET frames == nav_ephemeris_frames_iter(rec)
    IN  IF is_sbas(satellite.constellation)
        THEN LET items == filter_map([n \in 1..Len(frames) |->
                                         sbas_candidate(frames[n], satellite)])
             IN  min_by_key(items, [n \in 1..Len(items) |-> t - items[n].toc])
        ELSE LET items == filter_map([n \in 1..Len(frames) |->
                                         other_candidate(frames[n], satellite, t)])
             IN  min_by_key(items, [n \in 1..Len(items) |-> Abs(t - items[n].toe)])

(***************************************************************************)
(* SpecSelect: records are decoded into the NAV record, then the selector  *)
(* is queried.                                                             *)
(***************************************************************************)
\* Number of entries of the NAV record
MaxRecords == 3

SelectSVs ==
    {s \in SVs : s.prn = 5 /\ s.constellation \in {"GPS", "Glonass", "SBAS"}}

SelectTocs == {0, 3600, 7200}

SelectEphs ==
    {DefaultEphemeris} \cup
    {with_orbit(with_week(DefaultEphemeris, 0), "toe", F64(s)) : s \in {0, 7200}}

SelectEpochs == {0, 1800, 3600, 5400, 7200, 14399, 14400}

InitSelect ==
    /\ record = <<>>
    /\ eph = DefaultEphemeris
    /\ sv = [constellation |-> "GPS", prn |-> 5]
    /\ toc = 0
    /\ epoch = 0
    /\ ret = NoCall
    /\ StoreAtRest /\ SolverAtRest /\ ClockAtRest
    /\ ThreadsAtRest /\ StreamAtRest
    /\ RtcmAtRest /\ ObsAtRest

\* A decoded frame enters the record.  The selector's result borrows the
\* record, which cannot be updated while a result is held.
Insert(s, t, e) ==
    /\ ret = NoCall
    /\ Len(record_insert(record, Entry(s, t, e))) <= MaxRecords
    /\ record' = record_insert(record, Entry(s, t, e))
    /\ UNCHANGED <<eph, sv, toc, epoch, ret, lastSet, solverVars, clockVars,
                 threadVars, streamVars,
                   rtcmVars, obsVars>>

CallSelection(s, t) ==
    /\ ret = NoCall
    /\ sv' = s
    /\ epoch' = t
    /\ ret' = [op |-> "nav_ephemeris_selection",
               out |-> nav_ephemeris_selection(record, s, t)]
    /\ UNCHANGED <<record, eph, toc, lastSet, solverVars, clockVars,
                 threadVars, streamVars,
                   rtcmVars, obsVars>>

\* The caller drops the selected triplet and the arguments of the call.
Release ==
    /\ ret # NoCall
    /\ ret' = NoCall
    /\ sv' = [constellation |-> "GPS", prn |-> 5]
    /\ epoch' = 0
    /\ UNCHANGED <<record, eph, toc, lastSet, solverVars, clockVars,
                 threadVars, streamVars,
                   rtcmVars, obsVars>>

NextSelect ==
    \/ \E s \in SelectSVs, t \in SelectTocs, e \in SelectEphs : Insert(s, t, e)
    \/ \E s \in SelectSVs, t \in SelectEpochs : CallSelection(s, t)
    \/ Release

SpecSelect == InitSelect /\ [][NextSelect]_vars

(***************************************************************************)
(* Properties of the selector (checked under SpecSelect).                  *)
(***************************************************************************)
Selected == ret.op = "nav_ephemeris_selection"

\* Positions of the entries stored under satellite s
StoredFor(s) == {n \in 1..Len(record) : record[n].sv = s}

\* Entry n is usable for satellite s at epoch t: valid, with a ToE.
Usable(n, s, t) ==
    /\ is_valid(record[n].eph, s, record[n].epoch, t)
    /\ IsOk(toe(record[n].eph, s))

ToeOf(n, s) == toe(record[n].eph, s).val

\* C1: for a satellite that is not SBAS, the selector returns a record stored
\* under sv that is valid at t and whose ToE is computable, such that no stored
\* record of sv valid at t is strictly closer to t by |t - toe|; the returned
\* toc is the key epoch of that record and the returned toe its toe(sv).
C1_SelectsClosestValidToe ==
    (Selected /\ ~is_sbas(sv.constellation)) =>
        /\ (\E n \in StoredFor(sv) : Usable(n, sv, epoch)) => IsSome(ret.out)
        /\ IsSome(ret.out) =>
               LET r == Unwrap(ret.out)
               IN  /\ \E n \in StoredFor(sv) :
                          /\ Usable(n, sv, epoch)
                          /\ r.eph = record[n].eph
                          /\ r.toc = record[n].epoch
                          /\ r.toe = ToeOf(n, sv)
                   /\ \A m \in StoredFor(sv) :
                          Usable(m, sv, epoch) =>
                              Abs(epoch - ToeOf(m, sv)) >= Abs(epoch - r.toe)

\* Two usable records of the satellite are stored, the selected one is the
\* later entry and it is strictly closer to t than the earlier one.
C1_Witness ==
    /\ Selected /\ sv.constellation = "GPS" /\ IsSome(ret.out)
    /\ \E n, m \in StoredFor(sv) :
           /\ n < m
           /\ Usable(n, sv, epoch) /\ Usable(m, sv, epoch)
           /\ Unwrap(ret.out).toc = record[m].epoch
           /\ Abs(epoch - ToeOf(m, sv)) < Abs(epoch - ToeOf(n, sv))

\* C2: for an SBAS satellite the selector returns, among all the stored
\* records of sv, the one whose toc is closest to t (|t - toc| minimal, t
\* before or after toc), and the returned ToE equals the returned ToC.
C2_SbasClosestToc ==
    (Selected /\ is_sbas(sv.constellation)) =>
        IF StoredFor(sv) = {} THEN ret.out = None
        ELSE /\ IsSome(ret.out)
             /\ Unwrap(ret.out).toe = Unwrap(ret.out).toc
             /\ \E n \in StoredFor(sv) :
                    /\ Unwrap(ret.out).toc = record[n].epoch
                    /\ Unwrap(ret.out).eph = record[n].eph
             /\ \A m \in StoredFor(sv) :
                    Abs(epoch - record[m].epoch) >= Abs(epoch - Unwrap(ret.out).toc)

\* C3: the selector returns None when nothing is stored for sv and, for a
\* satellite that is not SBAS, when no stored record of sv is both valid at t
\* and has a computable ToE; a record it returns is never outside its
\* validity window.
C3_NoneWithoutUsableRecord ==
    Selected =>
        /\ StoredFor(sv) = {} => ret.out = None
        /\ ~is_sbas(sv.constellation) =>
               /\ (\A n \in StoredFor(sv) : ~Usable(n, sv, epoch)) => ret.out = None
               /\ IsSome(ret.out) =>
                      Abs(epoch - Unwrap(ret.out).toe) < Window(sv.constellation)

\* Records with a computable ToE are stored for the GPS satellite, all of
\* them stale at t, and the selector answered None.
C3_Witness ==
    /\ Selected /\ sv.constellation = "GPS"
    /\ \E n \in StoredFor(sv) : IsOk(toe(record[n].eph, sv))
    /\ \A n \in StoredFor(sv) : ~Usable(n, sv, epoch)
    /\ ret.out = None

(***************************************************************************)
(* SpecStore: an Ephemeris is built by with_orbit / with_week from the     *)
(* default one and read back with get_orbit_field_f64.                     *)
(***************************************************************************)
\* Values given to the builders: -1 .. MaxValue
MaxValue == 1

\* Keys are case sensitive: "toe" and "Toe" are two fields.
BuildKeys == {"week", "toe", "Toe"}

ReadKeys == BuildKeys \cup {"sqrta"}

BuildItems == {Item(k, x) : k \in {"F64", "I8"}, x \in (0 - 1)..MaxValue}

InitStore ==
    /\ eph = DefaultEphemeris
    /\ lastSet = <<>>
    /\ sv = [constellation |-> "GPS", prn |-> 5]
    /\ toc = 0
    /\ epoch = 0
    /\ ret = NoCall
    /\ RecordAtRest /\ SolverAtRest /\ ClockAtRest
    /\ ThreadsAtRest /\ StreamAtRest
    /\ RtcmAtRest /\ ObsAtRest

WithOrbit(key, item) ==
    /\ eph' = with_orbit(eph, key, item)
    /\ lastSet' = orbits_insert(lastSet, key, item.v)
    /\ ret' = NoCall
    /\ UNCHANGED <<record, sv, toc, epoch, solverVars, clockVars,
                 threadVars, streamVars,
                   rtcmVars, obsVars>>

WithWeek(week) ==
    /\ eph' = with_week(eph, week)
    /\ lastSet' = orbits_insert(lastSet, "week", week)
    /\ ret' = NoCall
    /\ UNCHANGED <<record, sv, toc, epoch, solverVars, clockVars,
                 threadVars, streamVars,
                   rtcmVars, obsVars>>

CallGetOrbitField(field) ==
    Call("get_orbit_field_f64",
         [field |-> field, res |-> get_orbit_field_f64(eph, field)])

NextStore ==
    \/ \E key \in BuildKeys, item \in BuildItems : WithOrbit(key, item)
    \/ \E week \in 0..MaxWeek : WithWeek(week)
    \/ \E field \in ReadKeys : CallGetOrbitField(field)

SpecStore == InitStore /\ [][NextStore]_vars

\* C7: after any sequence of with_orbit / with_week calls,
\* get_orbit_field_f64(name) returns the value last set for name (with_week
\* sets "week"), whatever was set for the other keys, and MissingData for a
\* name that was never set.
C7_ReadsLastValueSet ==
    ret.op = "get_orbit_field_f64" =>
        IF ret.out.field \in DOMAIN lastSet
        THEN IsOk(ret.out.res) /\ ret.out.res.val = lastSet[ret.out.field]
        ELSE IsErr(ret.out.res) /\ ret.out.res.err = "MissingData"

\* "toe" is read back after "week" and "Toe" were given other values.
C7_Witness ==
    /\ ret.op = "get_orbit_field_f64" /\ ret.out.field = "toe"
    /\ {"week", "toe", "Toe"} \subseteq DOMAIN lastSet
    /\ lastSet["Toe"] # lastSet["toe"] /\ lastSet["week"] # lastSet["toe"]
    /\ IsOk(ret.out.res)

(***************************************************************************)
(* f64 arithmetic.  A finite f64 is (-1)^neg * man * 2^exp, man a whole    *)
(* number held in four limbs of 14 bits, least significant first: man is   *)
(* zero (with exp 0 and neg FALSE) or 2^52 <= man < 2^53.  Every operation *)
(* rounds the exact result to the nearest such number, ties to even, as    *)
(* IEEE 754 does.  Infinities, NaN, subnormal numbers and the sign of zero *)
(* are left out: the sampled values stay far from them.  f64::sin is the   *)
(* sine of the platform's libm, which is not correctly rounded: Sin gives  *)
(* the f64 on either side of the sine.                                     *)
(***************************************************************************)
W == 2 ^ 14

\* Limb k of the whole number n, zero beyond its limbs
LimbAt(n, k) == IF k >= 1 /\ k <= Len(n) THEN n[k] ELSE 0

\* The limbs of a whole number 0 <= v < 2^31
NatOfInt(v) == <<v % W, (v \div W) % W, v \div (W * W)>>

NatIsZero(n) == \A k \in 1..Len(n) : n[k] = 0

\* a < b for whole numbers of any lengths
NatLess(a, b) ==
    \E k \in 1..(Len(a) + Len(b)) :
        /\ LimbAt(a, k) < LimbAt(b, k)
        /\ \A j \in (k + 1)..(Len(a) + Len(b)) : LimbAt(a, j) = LimbAt(b, j)

\* The index of the highest limb that is not zero, 0 for zero
TopLimb(n) ==
    CHOOSE k \in 0..Len(n) :
        (k = 0 \/ n[k] # 0) /\ \A j \in (k + 1)..Len(n) : n[j] = 0

\* The number of bits of a limb
BitLen(v) == CHOOSE b \in 0..14 : v < 2 ^ b /\ (b = 0 \/ 2 ^ (b - 1) <= v)

BitsFrom(n, top) == IF top = 0 THEN 0 ELSE 14 * (top - 1) + BitLen(n[top])

\* The number of bits of a whole number
NatBits(n) == BitsFrom(n, TopLimb(n))

\* Bit b of a whole number, bit 0 the least significant
Bit(n, b) == (LimbAt(n, b \div 14 + 1) \div 2 ^ (b % 14)) % 2

\* Whether a bit below bit b is set
LowBits(n, b) ==
    \/ \E k \in 1..Len(n) : k <= b \div 14 /\ n[k] # 0
    \/ LimbAt(n, b \div 14 + 1) % 2 ^ (b % 14) # 0

\* n * 2^s in m limbs
ShiftLeft(n, s, m) ==
    SubSeq([k \in 1..m |->
              (LimbAt(n, k - s \div 14) % 2 ^ (14 - (s % 14))) * 2 ^ (s % 14)
                  + LimbAt(n, k - s \div 14 - 1) \div 2 ^ (14 - (s % 14))],
           1, m)

\* n / 2^s in m limbs, the bits below dropped
ShiftRight(n, s, m) ==
    SubSeq([k \in 1..m |->
              LimbAt(n, k + s \div 14) \div 2 ^ (s % 14)
                  + (LimbAt(n, k + s \div 14 + 1) % 2 ^ (s % 14))
                        * 2 ^ (14 - (s % 14))], 1, m)

\* Limb k of raw once every limb gave what it holds above W - 1 to the next
SpillAt(raw, k) ==
    IF k < 1 THEN 0
    ELSE (raw[k] % W) + (IF k = 1 THEN 0 ELSE raw[k - 1] \div W)

\* The limbs of raw, each below 2^31, after they spilled twice: every limb
\* is then below W + 9.  The number fits the limbs, so the last limb gives
\* nothing.
Spill(raw) ==
    SubSeq([k \in 1..Len(raw) |->
              (SpillAt(raw, k) % W) + (SpillAt(raw, k - 1) \div W)], 1,
          Len(raw))

\* Whether a carry comes into limb k of limbs below 2 * W - 1: a limb below
\* it reached W and every limb between them is W - 1 at least.
CarryInto(raw, k) ==
    \E j \in 1..(k - 1) :
        raw[j] >= W /\ \A l \in (j + 1)..(k - 1) : raw[l] >= W - 1

\* The limbs of the number held in limbs below 2 * W - 1
Settle(raw) ==
    SubSeq([k \in 1..Len(raw) |->
              (raw[k] + (IF CarryInto(raw, k) THEN 1 ELSE 0)) % W], 1,
          Len(raw))

\* Whether limb k of the differences raw lends one: a limb below it is
\* negative and no limb between them is positive.
BorrowFrom(raw, k) ==
    \E j \in 1..(k - 1) :
        raw[j] < 0 /\ \A l \in (j + 1)..(k - 1) : raw[l] <= 0

\* The limbs of the number held in differences of limbs, not negative
SettleDown(raw) ==
    SubSeq([k \in 1..Len(raw) |->
              (raw[k] - (IF BorrowFrom(raw, k) THEN 1 ELSE 0)) % W], 1,
          Len(raw))

\* a + b in m limbs
NatAdd(a, b, m) ==
    Settle(SubSeq([k \in 1..m |-> LimbAt(a, k) + LimbAt(b, k)], 1, m))

\* a - b in m limbs, for a >= b
NatSub(a, b, m) ==
    SettleDown(SubSeq([k \in 1..m |-> LimbAt(a, k) - LimbAt(b, k)], 1, m))

\* The product of limb j of a with the limb of b that meets it in column k
ConvTerm(a, b, k, j) ==
    IF j <= Len(a) /\ k + 1 - j >= 1 /\ k + 1 - j <= Len(b)
    THEN a[j] * b[k + 1 - j] ELSE 0

\* Column k of the product of a and b, a of at most eight limbs
Conv(a, b, k) ==
    ((ConvTerm(a, b, k, 1) + ConvTerm(a, b, k, 2))
         + (ConvTerm(a, b, k, 3) + ConvTerm(a, b, k, 4)))
        + ((ConvTerm(a, b, k, 5) + ConvTerm(a, b, k, 6))
               + (ConvTerm(a, b, k, 7) + ConvTerm(a, b, k, 8)))

\* a * b, a of at most eight limbs
NatMul(a, b) ==
    IF NatIsZero(a) \/ NatIsZero(b)
    THEN SubSeq([k \in 1..(Len(a) + Len(b)) |-> 0], 1, Len(a) + Len(b))
    ELSE Settle(Spill(SubSeq([k \in 1..(Len(a) + Len(b)) |-> Conv(a, b, k)],
                             1,
                            Len(a) + Len(b))))

\* Short division of n by d < 2^17 from limb k down, r the remainder of
\* the limbs above: the limbs of the quotient, the most significant first,
\* then the remainder.
RECURSIVE DivSmallFrom(_, _, _, _)
DivSmallFrom(n, d, k, r) ==
    IF k = 0 THEN <<r>>
    ELSE <<(r * W + n[k]) \div d>>
             \o DivSmallFrom(n, d, k - 1, (r * W + n[k]) % d)

\* The quotient of n by d, from the limbs t of the short division
DivSmallQuo(n, t) ==
    SubSeq([k \in 1..Len(n) |-> t[Len(n) + 1 - k]], 1, Len(n))

NatDivSmall(n, d) ==
    IF NatIsZero(n) THEN n ELSE DivSmallQuo(n, DivSmallFrom(n, d, Len(n), 0))

\* The remainder of n by d
NatModSmall(n, d) ==
    IF NatIsZero(n) THEN 0 ELSE DivSmallFrom(n, d, Len(n), 0)[Len(n) + 1]

NatZero4 == <<0, 0, 0, 0>>

F64Zero == [neg |-> FALSE, exp |-> 0, man |-> NatZero4]

F64IsZero(x) == x.man = NatZero4

\* The largest mantissa, 2^53 - 1
ManMax == <<W - 1, W - 1, W - 1, 2 ^ 11 - 1>>

\* The smallest mantissa, 2^52
ManMin == <<0, 0, 0, 2 ^ 10>>

\* m + 1 for a mantissa below the largest
ManInc(m) ==
    SubSeq([k \in 1..4 |->
              IF \A j \in 1..(k - 1) : m[j] = W - 1
              THEN (m[k] + 1) % W ELSE m[k]], 1, 4)

\* The 53 leading bits m of a longer number, rounded up or left
RoundCut(neg, m, e, up) ==
    IF ~ up THEN [neg |-> neg, exp |-> e, man |-> m]
    ELSE IF m = ManMax THEN [neg |-> neg, exp |-> e + 1, man |-> ManMin]
    ELSE [neg |-> neg, exp |-> e, man |-> ManInc(m)]

\* Round to nearest, ties to even: the bit below the cut is set and either
\* a bit below it or the last bit kept is set.
RoundsUp(n, s, m) ==
    Bit(n, s - 1) = 1 /\ (LowBits(n, s - 1) \/ m[1] % 2 = 1)

RoundLong(neg, n, e, s, m) == RoundCut(neg, m, e + s, RoundsUp(n, s, m))

RoundBits(neg, n, e, bits) ==
    IF bits <= 53
    THEN [neg |-> neg, exp |-> e - (53 - bits),
          man |-> ShiftLeft(n, 53 - bits, 4)]
    ELSE RoundLong(neg, n, e, bits - 53, ShiftRight(n, bits - 53, 4))

\* The f64 nearest to (-1)^neg * n * 2^e, n a whole number in limbs
Round(neg, n, e) ==
    IF NatIsZero(n) THEN F64Zero ELSE RoundBits(neg, n, e, NatBits(n))

\* The f64 on either side of (-1)^neg * n * 2^e: the 53 leading bits of n
\* as they are and rounded away from zero, or the one f64 that holds it.
FaithfulLong(neg, n, e, s, m) ==
    IF LowBits(n, s)
    THEN {RoundCut(neg, m, e + s, FALSE), RoundCut(neg, m, e + s, TRUE)}
    ELSE {RoundCut(neg, m, e + s, FALSE)}

FaithfulBits(neg, n, e, bits) ==
    IF bits <= 53
    THEN {[neg |-> neg, exp |-> e - (53 - bits),
           man |-> ShiftLeft(n, 53 - bits, 4)]}
    ELSE FaithfulLong(neg, n, e, bits - 53, ShiftRight(n, bits - 53, 4))

Faithful(neg, n, e) ==
    IF NatIsZero(n) THEN {F64Zero} ELSE FaithfulBits(neg, n, e, NatBits(n))

\* The f64 nearest to (-1)^neg * (n + f) * 2^e where 0 < f < 1 when
\* inexact: n has more than 54 bits, so f only breaks ties.
RoundSticky(neg, n, e, inexact) ==
    Round(neg,
          IF inexact THEN NatAdd(ShiftLeft(n, 1, Len(n) + 1), <<1>>,
                                 Len(n) + 1)
          ELSE ShiftLeft(n, 1, Len(n) + 1),
          e - 1)

\* The f64 of a whole number -2^31 < v < 2^31
F64OfInt(v) == Round(v < 0, NatOfInt(Abs(v)), 0)

F64Neg(x) == IF F64IsZero(x) THEN x ELSE [x EXCEPT !.neg = ~ x.neg]

F64Abs(x) == [x EXCEPT !.neg = FALSE]

\* |x| < |y|
F64MagLess(x, y) ==
    IF F64IsZero(y) THEN FALSE
    ELSE IF F64IsZero(x) THEN TRUE
    ELSE x.exp < y.exp \/ (x.exp = y.exp /\ NatLess(x.man, y.man))

\* x < y
F64Less(x, y) ==
    IF x.neg # y.neg THEN x.neg
    ELSE IF x.neg THEN F64MagLess(y, x) ELSE F64MagLess(x, y)

\* x * y
F64Mul(x, y) ==
    IF F64IsZero(x) \/ F64IsZero(y) THEN F64Zero
    ELSE Round(x.neg # y.neg, NatMul(x.man, y.man), x.exp + y.exp)

\* a and b are the mantissas of x and y brought to the exponent e
F64AddAligned(x, y, a, b, e) ==
    IF x.neg = y.neg THEN Round(x.neg, NatAdd(a, b, 8), e)
    ELSE IF NatLess(a, b) THEN Round(y.neg, NatSub(b, a, 8), e)
    ELSE Round(x.neg, NatSub(a, b, 8), e)

\* x + y: a term more than 2^55 times smaller than the other leaves it
F64Add(x, y) ==
    IF F64IsZero(x) THEN y
    ELSE IF F64IsZero(y) THEN x
    ELSE IF x.exp - y.exp > 55 THEN x
    ELSE IF y.exp - x.exp > 55 THEN y
    ELSE IF x.exp >= y.exp
    THEN F64AddAligned(x, y, ShiftLeft(x.man, x.exp - y.exp, 8), y.man, y.exp)
    ELSE F64AddAligned(x, y, x.man, ShiftLeft(y.man, y.exp - x.exp, 8), x.exp)

\* x - y
F64Sub(x, y) == F64Add(x, F64Neg(y))

\* One bit of the long division by d: s holds the remainder, the quotient
\* and the bits still to come.
DivBit(d, s) ==
    IF NatLess(ShiftLeft(s.rem, 1, 5), d)
    THEN [rem  |-> ShiftLeft(s.rem, 1, 5),
          quo  |-> ShiftLeft(s.quo, 1, 5),
          left |-> s.left - 1]
    ELSE [rem  |-> NatSub(ShiftLeft(s.rem, 1, 5), d, 5),
          quo  |-> NatAdd(ShiftLeft(s.quo, 1, 5), <<1>>, 5),
          left |-> s.left - 1]

\* k bits of the long division, halving k
RECURSIVE DivBits(_, _, _)
DivBits(d, s, k) ==
    CASE s.left = 0 -> s
      [] k = 1 -> DivBit(d, s)
      [] OTHER -> DivBits(d, DivBits(d, s, k \div 2), k - k \div 2)

F64DivRound(x, y, s) ==
    RoundSticky(x.neg # y.neg, s.quo, x.exp - y.exp - 56, ~ NatIsZero(s.rem))

\* x / y for y other than zero: 56 bits of quotient past the leading one
F64Div(x, y) ==
    IF F64IsZero(x) THEN F64Zero
    ELSE F64DivRound(x, y,
             DivBits(y.man,
                     IF NatLess(x.man, y.man)
                     THEN [rem |-> x.man, quo |-> <<0>>, left |-> 56]
                     ELSE [rem |-> NatSub(x.man, y.man, 4), quo |-> <<1>>,
                           left |-> 56],
                     56))

\* One bit of the square root of n: the candidate c, the root with its next
\* bit set, is taken when its square stays within n.
SqrtTry(n, s, c) ==
    IF NatLess(n, NatMul(c, c)) THEN [root |-> s.root, left |-> s.left - 1]
    ELSE [root |-> c, left |-> s.left - 1]

SqrtBit(n, s) ==
    SqrtTry(n, s, NatAdd(s.root, ShiftLeft(<<1>>, s.left - 1, 4), 4))

RECURSIVE SqrtBits(_, _, _)
SqrtBits(n, s, k) ==
    CASE s.left = 0 -> s
      [] k = 1 -> SqrtBit(n, s)
      [] OTHER -> SqrtBits(n, SqrtBits(n, s, k \div 2), k - k \div 2)

\* The root r of n, n = man * 2^t below 2^110, as an f64 times 2^e
F64SqrtRound(n, r, e) ==
    IF NatIsZero(r) THEN F64Zero
    ELSE RoundSticky(FALSE, r, e, NatMul(r, r) # n)

F64SqrtOf(n, e) ==
    F64SqrtRound(n, SqrtBits(n, [root |-> NatZero4, left |-> 55], 55).root, e)

\* f64::sqrt for x >= 0: the mantissa is brought to 109 or 110 bits, on an
\* even exponent.
F64Sqrt(x) ==
    IF F64IsZero(x) THEN F64Zero
    ELSE IF x.exp % 2 = 0
    THEN F64SqrtOf(ShiftLeft(x.man, 56, 8), (x.exp - 56) \div 2)
    ELSE F64SqrtOf(ShiftLeft(x.man, 57, 8), (x.exp - 57) \div 2)

\* The f64 nearest to v / d for whole numbers |v| < 2^31 and 0 < d < 2^17
F64OfRatio(v, d) ==
    RoundSticky(v < 0,
                NatDivSmall(ShiftLeft(NatOfInt(Abs(v)), 84, 9), d),
                0 - 84,
                NatModSmall(ShiftLeft(NatOfInt(Abs(v)), 84, 9), d) # 0)

\* 0 and 1 in units of 2^-84, in seven limbs
SinZero == <<0, 0, 0, 0, 0, 0, 0>>

SinOne == <<0, 0, 0, 0, 0, 0, 1>>

\* n * c in m limbs for a whole number 0 <= c < 2^17
NatScale(n, c, m) ==
    Settle(Spill(SubSeq([k \in 1..m |-> LimbAt(n, k) * c], 1, m)))

\* pi / 2 in units of 2^-140, the bits below dropped
HalfPi140 == <<9504, 3688, 440, 5212, 6348, 6754, 4484, 4363, 15188, 9351, 1>>

\* The whole quarter turns in the angle a, held in units of 2^-140, a below
\* 2^156.  k0 divides the leading limbs of a by those of pi / 2, which are
\* 25735 of 25735.9: it is at least the count less one and, the count being
\* under 41722, at most the count and two.
SinQuadrantNear(a, k0) ==
    CHOOSE k \in (k0 - 2)..(k0 + 1) :
        /\ k >= 0
        /\ ~ NatLess(a, NatScale(HalfPi140, k, 12))
        /\ NatLess(a, NatScale(HalfPi140, k + 1, 12))

SinQuadrant(a) ==
    SinQuadrantNear(a, (a[10] + a[11] * W + a[12] * W * W)
                           \div (HalfPi140[10] + HalfPi140[11] * W))

\* The angle within its quarter turn, measured from the nearer zero of the
\* sine: 0 <= u <= pi / 2 and sin a = +- sin u
SinReduce(a, k) ==
    IF k % 2 = 0 THEN NatSub(a, NatScale(HalfPi140, k, 12), 12)
    ELSE NatSub(NatScale(HalfPi140, k + 1, 12), a, 12)

\* The product of a and b, both in units of 2^-84 and of seven limbs, in
\* units of 2^-84: the columns of the product from the sixth on, the sixth
\* dropped once it gave its carry; the columns below are left out.
SinMul(a, b) ==
    IF a = SinZero \/ b = SinZero THEN SinZero
    ELSE SubSeq(Settle(Spill(SubSeq([k \in 1..8 |-> Conv(a, b, k + 5)],
                                    1, 8))),
                2, 8)

\* The next term of sin(u) / u = 1 - u^2 / 3! + u^4 / 5! - ..., in units of
\* 2^-84, and the sums of the terms added and of the terms taken away
sin_term(term, y2, n) ==
    NatDivSmall(SinMul(term, y2), (2 * n + 2) * (2 * n + 3))

sin_step(s, y2) ==
    [term |-> sin_term(s.term, y2, s.n),
     pos  |-> IF s.n % 2 = 0 THEN NatAdd(s.pos, s.term, 7) ELSE s.pos,
     neg  |-> IF s.n % 2 = 1 THEN NatAdd(s.neg, s.term, 7) ELSE s.neg,
     n    |-> s.n + 1]

\* k terms of the series more, halving k; a term of zero ends it
RECURSIVE sin_series(_, _, _)
sin_series(s, y2, k) ==
    CASE s.term = SinZero -> s
      [] k = 1 -> sin_step(s, y2)
      [] OTHER -> sin_series(sin_series(s, y2, k \div 2), y2, k - k \div 2)

\* The sum of the series: the terms added less the terms taken away
sin_total(s) == IF s.n <= 1 THEN s.pos ELSE NatSub(s.pos, s.neg, 7)

\* sin(u) / u in units of 2^-84, from y2 = u^2: sixteen terms at most, the
\* sixteenth is below 2^-84 for u <= pi / 2
sin_sum(y2) ==
    sin_total(sin_series([term |-> SinOne, pos |-> SinZero, neg |-> SinZero,
                          n |-> 0],
                         y2, 16))

\* The f64 on either side of a sine next to one: 1 - 2^-53 and 1
SinNearOne(neg) ==
    {[neg |-> neg, exp |-> 0 - 53, man |-> <<16383, 16383, 16383, 2047>>],
     [neg |-> neg, exp |-> 0 - 52, man |-> <<0, 0, 0, 1024>>]}

\* The f64 on either side of the sine n * 2^e.  The sine of an f64 other
\* than zero is never one: a product that the cut of the series brought to
\* one or above stands for a sine just under one.
SinCapped(neg, n, e) ==
    IF NatBits(n) + e > 0 THEN SinNearOne(neg) ELSE Faithful(neg, n, e)

\* sin u = u * (sin u / u) for the factor c = sin u / u: the 84 leading bits
\* of u times c; c is 1 when u^2 is below 2^-84.
SinProduct(neg, u, bits, c) ==
    IF c = SinOne THEN Faithful(neg, u, 0 - 140)
    ELSE SinCapped(neg,
                   NatMul(IF bits > 84 THEN ShiftRight(u, bits - 84, 6)
                          ELSE ShiftLeft(u, 84 - bits, 6),
                          c),
                   bits - 84 - 140 - 84)

\* u in units of 2^-84
SinUnits(u) == SubSeq(u, 5, 11)

SinNorm(neg, u, bits) ==
    SinProduct(neg, u, bits, sin_sum(SinMul(SinUnits(u), SinUnits(u))))

SinValue(neg, u) ==
    IF NatIsZero(u) THEN {F64Zero} ELSE SinNorm(neg, u, NatBits(u))

SinTurn(neg, a, k) == SinValue(neg # (k % 4 >= 2), SinReduce(a, k))

SinAngle(neg, a) == SinTurn(neg, a, SinQuadrant(a))

\* f64::sin for |x| < 2^16: the values a libm with an error below one unit
\* in the last place may return, the f64 on either side of the sine.  Below
\* 2^-26 the sine is x itself.
Sin(x) ==
    IF F64IsZero(x) \/ x.exp < 0 - 78 THEN {x}
    ELSE SinAngle(x.neg, ShiftLeft(x.man, x.exp + 140, 12))

\* The whole part of |x|, for |x| < 2^70
F64Trunc(x) ==
    IF x.exp >= 0 THEN ShiftLeft(x.man, x.exp, 5)
    ELSE ShiftRight(x.man, 0 - x.exp, 5)

\* The unit of the sampled numbers of the records: 1e-4
Scale == 10 ^ 4

\* The f64 a record holds for the sampled number v, v / Scale
F64OfScaled(v) == F64OfRatio(v, Scale)

F64OfE8Round(neg, n, q) ==
    RoundSticky(neg, NatDivSmall(q, Scale), 0 - 84,
                NatModSmall(n, Scale) # 0 \/ NatModSmall(q, Scale) # 0)

F64OfE8Of(neg, n) == F64OfE8Round(neg, n, NatDivSmall(n, Scale))

\* The f64 a record holds for the sampled number v, v / 10^8
F64OfE8(v) == F64OfE8Of(v < 0, ShiftLeft(NatOfInt(Abs(v)), 84, 9))

\* 1e-10
Tol == F64Div(F64OfInt(1), F64Mul(F64OfInt(10 ^ 5), F64OfInt(10 ^ 5)))

\* One evaluation of e_k = m_k + ecc * sin(e_k_lst): the values it may take
kepler_step(m, e, lst) == {F64Add(m, F64Mul(e, sine)) : sine \in Sin(lst)}

\* if (e_k - e_k_lst).abs() < 1e-10 { break; } on the locals s of the loop:
\* next is the new e_k, s.e_k the one before it.
kepler_test(s, next) ==
    [s EXCEPT !.e_k = next, !.found = F64Less(F64Abs(F64Sub(next, s.e_k)), Tol)]

\* One pass of the loop on its locals: the loop is left once two consecutive
\* iterates meet the test.  The locals the pass may end with.
kepler_pass(s) ==
    IF s.found THEN {s}
    ELSE {kepler_test(s, next) : next \in kepler_step(s.m_k, s.ecc, s.e_k)}

\* k passes of the loop from any of the locals in set, halving k.
RECURSIVE kepler_passes(_, _)
kepler_passes(set, k) ==
    CASE \A s \in set : s.found -> set
      [] k <= 1 -> IF k = 1 THEN UNION {kepler_pass(s) : s \in set} ELSE set
      [] OTHER -> kepler_passes(kepler_passes(set, k \div 2), k - k \div 2)

\* break with e_k, or return None
kepler_result(s) == IF s.found THEN Some(s.e_k) ELSE None

\* The loop of Ephemeris::solver: what it may end with, Some(e_k) once two
\* consecutive iterates meet the test, None when n exceeds the budget.
kepler_loop(m, e, max, n, lst) ==
    {kepler_result(s) :
        s \in kepler_passes({[m_k |-> m, ecc |-> e, found |-> FALSE,
                               e_k |-> lst]},
                            max + 1 - n)}

(***************************************************************************)
(* SpecKepler: the iteration of Ephemeris::solver, one pass of the loop at *)
(* a time, for sampled mean anomalies, eccentricities and budgets.         *)
(***************************************************************************)
\* Iteration budgets given by the caller: 0 .. MaxIter
MaxIter == 16

\* Sampled mean anomalies, from -0.7 rad to a full turn
KeplerAnomalies ==
    {F64OfScaled(v) : v \in {0, 1000, 15708, 31416, 47124, 62832, 0 - 7000}}

\* Sampled eccentricities: 0, 0.01, 0.5, 0.9
KeplerEccentricities == {F64OfScaled(v) : v \in {0, 100, 5000, 9000}}

InitKepler ==
    /\ m_k \in KeplerAnomalies
    /\ ecc \in KeplerEccentricities
    /\ max_iteration \in 0..MaxIter
    /\ i = 0
    /\ e_k = F64Zero
    /\ e_k_lst = F64Zero
    /\ pc = "loop"
    /\ ret = NoCall
    /\ eph = DefaultEphemeris
    /\ sv = [constellation |-> "GPS", prn |-> 5]
    /\ toc = 0
    /\ epoch = 0
    /\ RecordAtRest /\ StoreAtRest /\ ClockAtRest
    /\ ThreadsAtRest /\ StreamAtRest
    /\ RtcmAtRest /\ ObsAtRest

\* The Result a caller of to_keplerian_solver receives for the Option s of
\* solver(), the elements being there: a solver that gave up on its
\* iteration budget is reported as Diverged.
to_keplerian_solver_of(s) ==
    IF s = None THEN Err("Diverged") ELSE Ok(Unwrap(s))

\* Faulty variant: a solver that hands out its last iterate when the budget
\* is spent.
SolverExhausted_last_iterate ==
    /\ pc = "loop"
    /\ i > max_iteration
    /\ pc' = "returned"
    /\ ret' = [op |-> "solver", out |-> Some(e_k)]
    /\ UNCHANGED <<record, eph, sv, toc, epoch, lastSet,
                   m_k, ecc, max_iteration, i, e_k, e_k_lst, clockVars,
                 threadVars, streamVars,
                   rtcmVars, obsVars>>

\* if i > max_iteration { return None; }
SolverExhausted ==
    /\ pc = "loop"
    /\ i > max_iteration
    /\ pc' = "returned"
    /\ ret' = [op |-> "solver", out |-> None]
    /\ UNCHANGED <<record, eph, sv, toc, epoch, lastSet,
                   m_k, ecc, max_iteration, i, e_k, e_k_lst, clockVars,
                 threadVars, streamVars,
                   rtcmVars, obsVars>>

\* if (e_k - e_k_lst).abs() < 1e-10 { break; } and the Solver is built
SolverConverged ==
    /\ pc = "loop"
    /\ i <= max_iteration
    /\ \E next \in kepler_step(m_k, ecc, e_k_lst) :
        /\ F64Less(F64Abs(F64Sub(next, e_k_lst)), Tol)
        /\ e_k' = next
        /\ pc' = "returned"
        /\ ret' = [op |-> "solver", out |-> Some(next)]
        /\ UNCHANGED <<record, eph, sv, toc, epoch, lastSet,
                       m_k, ecc, max_iteration, i, e_k_lst, clockVars,
                 threadVars, streamVars,
                   rtcmVars, obsVars>>

\* i += 1; e_k_lst = e_k;
SolverIterate ==
    /\ pc = "loop"
    /\ i <= max_iteration
    /\ \E next \in kepler_step(m_k, ecc, e_k_lst) :
        /\ ~ F64Less(F64Abs(F64Sub(next, e_k_lst)), Tol)
        /\ e_k' = next
        /\ e_k_lst' = next
        /\ i' = i + 1
        /\ UNCHANGED <<record, eph, sv, toc, epoch, ret, lastSet,
                       m_k, ecc, max_iteration, pc, clockVars,
                 threadVars, streamVars,
                   rtcmVars, obsVars>>

\* let solver = self.to_keplerian_solver(sv, toe, epoch, max_iter)?: the
\* Option of solver() is handed on as a Result.
ToKeplerianSolverReturn ==
    /\ pc = "returned"
    /\ pc' = "reported"
    /\ ret' = [op |-> "to_keplerian_solver",
               out |-> to_keplerian_solver_of(ret.out)]
    /\ UNCHANGED <<record, eph, sv, toc, epoch, lastSet,
                   m_k, ecc, max_iteration, i, e_k, e_k_lst, clockVars,
                   threadVars, streamVars, rtcmVars, obsVars>>

NextKepler ==
    \/ SolverExhausted
    \/ SolverConverged
    \/ SolverIterate
    \/ ToKeplerianSolverReturn

SpecKepler == InitKepler /\ [][NextKepler]_vars

\* The iterate e_k met the test of the loop within the budget: it is one
\* step from the iterate before it and less than the tolerance away.
MetTolerance ==
    /\ e_k \in kepler_step(m_k, ecc, e_k_lst)
    /\ F64Less(F64Abs(F64Sub(e_k, e_k_lst)), Tol)
    /\ i <= max_iteration

\* C10: the loop (E from 0, E_k = M + e sin(E_k-1)) yields a Solver only
\* once the test |E_k - E_k-1| < 1e-10 is met by the iterate it returns;
\* when the iteration count exceeds max_iteration without meeting it,
\* solver() returns nothing, the caller of to_keplerian_solver receives the
\* Diverged error, and neither hands out the last approximate iterate.
C10_SolverOnlyAfterConvergence ==
    /\ (pc = "returned") =>
           /\ ret.op = "solver"
           /\ IsSome(ret.out) => (Unwrap(ret.out) = e_k /\ MetTolerance)
           /\ i > max_iteration => ret.out = None
           /\ ret.out \in kepler_loop(m_k, ecc, max_iteration, 0, F64Zero)
    /\ (pc = "reported") =>
           /\ ret.op = "to_keplerian_solver"
           /\ IsOk(ret.out) => (ret.out.val = e_k /\ MetTolerance)
           /\ i > max_iteration => ret.out = Err("Diverged")
           /\ IsErr(ret.out) => (ret.out.err = "Diverged" /\ i > max_iteration)

\* The budget ran out on iterates that were still moving: the failure
\* reported is Diverged.
C10_Witness ==
    /\ pc = "reported" /\ ret.out = Err("Diverged")
    /\ max_iteration >= 2 /\ i = max_iteration + 1
    /\ e_k # F64Zero /\ ecc = F64OfScaled(9000)

\* C11: for an eccentricity in [0, 0.9] and max_iteration >= 15 the solver
\* converges (it does not fail on the iteration budget) and the eccentric
\* anomaly it returns satisfies E = M + e sin(E) to within 1e-9 rad.
C11_ConvergesWithinFifteen ==
    (/\ pc = "returned"
     /\ max_iteration >= 15
     /\ ~ F64Less(F64OfScaled(9000), ecc)) =>
        /\ IsSome(ret.out)
        /\ \A next \in kepler_step(m_k, ecc, e_k) :
               F64Less(F64Abs(F64Sub(e_k, next)),
                       F64Div(F64OfInt(1), F64OfInt(10 ^ 9)))

(***************************************************************************)
(* Position and velocity resolution.  Units of the sampled stores: sqrta   *)
(* in m^1/2, adot in m/s, e and the angles in 1/Scale, deltaN in 1e-8      *)
(* rad/s, posX.. in km, velX.. in km/s, accelX.. in km/s^2, toe in s.      *)
(***************************************************************************)
KeplerFields == {"sqrta", "e", "i0", "omega", "omega0", "m0", "toe"}

PerturbationFields ==
    {"cuc", "cus", "cic", "cis", "crc", "crs", "deltaN", "idot", "omegaDot"}

to_kepler(e) ==
    IF \E field \in KeplerFields : IsErr(get_orbit_field_f64(e, field))
    THEN None
    ELSE LET f(field) == get_orbit_field_f64(e, field).val
         IN  Some([semi_major_m |-> f("sqrta") * f("sqrta"),
                   eccentricity |-> f("e"),
                   i0_rad       |-> f("i0"),
                   omega_rad    |-> f("omega"),
                   omega0_rad   |-> f("omega0"),
                   m0_rad       |-> f("m0"),
                   toe_s        |-> f("toe")])

\* to_perturbations reading an absent term as 0.0 instead of failing
to_perturbations_defaulting(e) ==
    LET f(field) == IF Has(e, field) THEN get_orbit_field_f64(e, field).val
                    ELSE 0
    IN  Some([cuc_rad |-> f("cuc"), cus_rad |-> f("cus"),
              cic_rad |-> f("cic"), cis_rad |-> f("cis"),
              crc_m   |-> f("crc"), crs_m   |-> f("crs"),
              dn_rad  |-> f("deltaN"),
              idot_rad_s     |-> f("idot"),
              omegadot_rad_s |-> f("omegaDot")])

to_perturbations(e) ==
    IF \E field \in PerturbationFields : IsErr(get_orbit_field_f64(e, field))
    THEN None
    ELSE LET f(field) == get_orbit_field_f64(e, field).val
         IN  Some([cuc_rad |-> f("cuc"), cus_rad |-> f("cus"),
                   cic_rad |-> f("cic"), cis_rad |-> f("cis"),
                   crc_m   |-> f("crc"), crs_m   |-> f("crs"),
                   dn_rad  |-> f("deltaN"),
                   idot_rad_s     |-> f("idot"),
                   omegadot_rad_s |-> f("omegaDot")])

\* The Keplerian value the solver works on: the orbital elements, the
\* perturbations and the reference epoch (ToE).
to_keplerian(e, satellite) ==
    IF to_kepler(e) = None \/ to_perturbations(e) = None
       \/ IsErr(toe(e, satellite))
    THEN None
    ELSE Some([sma_m  |-> Unwrap(to_kepler(e)).semi_major_m,
               ecc    |-> Unwrap(to_kepler(e)).eccentricity,
               ma_rad |-> Unwrap(to_kepler(e)).m0_rad,
               dn_rad |-> Unwrap(to_perturbations(e)).dn_rad,
               toe    |-> toe(e, satellite).val])

cnav_adot_m_s(e) == get_orbit_field_f64(e, "adot")

\* gm_m3_s2 of each constellation, in m^3 / s^2: 3.986004418E14,
\* 3.9860044E14 and 3.9860050E14 are whole numbers an f64 holds exactly.
gm_m3_s2(c) ==
    CASE c \in {"BeiDou", "Galileo"} ->
             F64Add(F64Mul(F64OfInt(398600), F64OfInt(10 ^ 9)),
                    F64OfInt(441800000))
      [] c = "Glonass" ->
             F64Add(F64Mul(F64OfInt(398600), F64OfInt(10 ^ 9)),
                    F64OfInt(440000000))
      [] OTHER ->
             F64Add(F64Mul(F64OfInt(398600), F64OfInt(10 ^ 9)),
                    F64OfInt(500000000))

\* n0 = (gm_m3_s2 / keplerian.sma_m.powi(3)).sqrt(), in rad/s
mean_motion(c, sma_m) ==
    F64Sqrt(F64Div(gm_m3_s2(c), F64Mul(sma_m, F64Mul(sma_m, sma_m))))

\* keplerian.sma_m += a_dot_m_s * dt_seconds when the record has "adot"
solver_sma_m(e, keplerian, dt_seconds) ==
    IF IsOk(cnav_adot_m_s(e))
    THEN F64Add(F64OfInt(keplerian.sma_m),
                F64Mul(F64OfInt(cnav_adot_m_s(e).val), F64OfInt(dt_seconds)))
    ELSE F64OfInt(keplerian.sma_m)

\* m_k = keplerian.ma_rad + n * dt_seconds with n = n0 + keplerian.dn_rad
solver_m_k(satellite, keplerian, sma_m, dt_seconds) ==
    F64Add(F64OfScaled(keplerian.ma_rad),
           F64Mul(F64Add(mean_motion(satellite.constellation, sma_m),
                         F64OfE8(keplerian.dn_rad)),
                  F64OfInt(dt_seconds)))

\* The Solver built once the loop is left with e_k
solver_of(satellite, dt_seconds, loop) ==
    IF loop = None THEN None
    ELSE Some([satellite  |-> satellite,
               dt_seconds |-> dt_seconds,
               e_k        |-> Unwrap(loop)])

\* The loop on m_k for the corrected semi-major axis sma_m.  With sma_m
\* negative n0 is the root of a negative number, with sma_m zero it is
\* infinite: m_k and every e_k are then NaN or infinite, the test
\* (e_k - e_k_lst).abs() < 1e-10 is never met and the budget runs out.
solver_loop(satellite, keplerian, sma_m, dt_seconds, max) ==
    IF F64IsZero(sma_m) \/ sma_m.neg THEN {None}
    ELSE kepler_loop(solver_m_k(satellite, keplerian, sma_m, dt_seconds),
                     F64OfScaled(keplerian.ecc), max, 0, F64Zero)

solver_from(e, satellite, keplerian, dt_seconds, max) ==
    {solver_of(satellite, dt_seconds, loop) :
        loop \in solver_loop(satellite, keplerian,
                             solver_sma_m(e, keplerian, dt_seconds),
                             dt_seconds, max)}

\* Ephemeris::solver up to the eccentric anomaly, what it may return:
\* Some(Solver) when the elements are there and the iteration converged
\* within the budget.
solver(e, satellite, t, max) ==
    IF to_keplerian(e, satellite) = None THEN {None}
    ELSE solver_from(e, satellite, Unwrap(to_keplerian(e, satellite)),
                     t - Unwrap(to_keplerian(e, satellite)).toe, max)

\* The Result form of the solver: a failed extraction is MissingData, an
\* exhausted iteration budget is Diverged.
to_keplerian_solver(e, satellite, t_toe, t, max) ==
    IF to_kepler(e) = None \/ to_perturbations(e) = None
    THEN {Err("MissingData")}
    ELSE {to_keplerian_solver_of(s) : s \in solver(e, satellite, t, max)}

\* A resolved state: the branch that produced it; position and velocity
\* when they are Cartesian extrapolations, the eccentric anomaly when the
\* rotations of the Keplerian solution produced it.
StateVector(branch, pos, vel, anomaly) ==
    [branch |-> branch, pos |-> pos, vel |-> vel, e_k |-> anomaly]

\* Solver::position_velocity_km matching the constellation before the
\* geostationary test
position_velocity_km_meo_first(s) ==
    IF s.satellite.constellation \in {"GPS", "Galileo", "BeiDou"}
    THEN Some(StateVector("meo", <<>>, <<>>, s.e_k))
    ELSE IF is_beidou_geo(s.satellite)
    THEN Some(StateVector("beidou_geo", <<>>, <<>>, s.e_k))
    ELSE None

\* Solver::position_velocity_km: which rotation is applied
position_velocity_km(s) ==
    IF is_beidou_geo(s.satellite)
    THEN Some(StateVector("beidou_geo", <<>>, <<>>, s.e_k))
    ELSE IF s.satellite.constellation \in {"GPS", "Galileo", "BeiDou"}
    THEN Some(StateVector("meo", <<>>, <<>>, s.e_k))
    ELSE None

PositionFields == {"posX", "posY", "posZ"}
VelocityFields == {"velX", "velY", "velZ"}
AccelFields    == {"accelX", "accelY", "accelZ"}

\* One axis of r = pos_km; r += vel_km * dt; r += 0.5 * accel_km *
\* dt.powi(2), for stored values that are whole numbers
extrapolate_km(pos_km, vel_km, accel_km, dt) ==
    F64Add(F64Add(F64OfInt(pos_km), F64Mul(F64OfInt(vel_km), dt)),
           F64Mul(F64Mul(F64OfRatio(1, 2), F64OfInt(accel_km)),
                  F64Mul(dt, dt)))

\* The GLONASS / SBAS branch extrapolating with dt = epoch - toc
glonass_sbas_position_velocity_km_dt_reversed(e, t_toc, t) ==
    IF \E field \in PositionFields \cup VelocityFields : ~ Has(e, field)
    THEN Err("MissingData")
    ELSE LET f(field) == get_orbit_field_f64(e, field).val
             accel_km == IF \A field \in AccelFields : Has(e, field)
                         THEN <<f("accelX"), f("accelY"), f("accelZ")>>
                         ELSE <<0, 0, 0>>
             dt       == F64OfInt(t - t_toc)
         IN  Ok(StateVector("cartesian",
                            <<extrapolate_km(f("posX"), f("velX"),
                                             accel_km[1], dt),
                              extrapolate_km(f("posY"), f("velY"),
                                             accel_km[2], dt),
                              extrapolate_km(f("posZ"), f("velZ"),
                                             accel_km[3], dt)>>,
                            <<F64Zero, F64Zero, F64Zero>>, F64Zero))

\* The GLONASS / SBAS branch returning the stored velocity with the position
glonass_sbas_position_velocity_km_with_velocity(e, t_toc, t) ==
    IF \E field \in PositionFields \cup VelocityFields : ~ Has(e, field)
    THEN Err("MissingData")
    ELSE LET f(field) == get_orbit_field_f64(e, field).val
             accel_km == IF \A field \in AccelFields : Has(e, field)
                         THEN <<f("accelX"), f("accelY"), f("accelZ")>>
                         ELSE <<0, 0, 0>>
             dt       == F64OfInt(t_toc - t)
         IN  Ok(StateVector("cartesian",
                            <<extrapolate_km(f("posX"), f("velX"),
                                             accel_km[1], dt),
                              extrapolate_km(f("posY"), f("velY"),
                                             accel_km[2], dt),
                              extrapolate_km(f("posZ"), f("velZ"),
                                             accel_km[3], dt)>>,
                            <<F64OfInt(f("velX")), F64OfInt(f("velY")),
                              F64OfInt(f("velZ"))>>, F64Zero))

\* The GLONASS / SBAS branch of sv_position_velocity_km: Vector6::new(r[0],
\* r[1], r[2], 0.0, 0.0, 0.0) with dt = (toc - epoch).to_seconds()
glonass_sbas_position_velocity_km(e, t_toc, t) ==
    IF \E field \in PositionFields : ~ Has(e, field)
    THEN Err("MissingData")
    ELSE IF \E field \in VelocityFields : ~ Has(e, field)
    THEN Err("MissingData")
    ELSE LET f(field) == get_orbit_field_f64(e, field).val
             pos_km   == <<f("posX"), f("posY"), f("posZ")>>
             vel_km   == <<f("velX"), f("velY"), f("velZ")>>
             accel_km == IF \A field \in AccelFields : Has(e, field)
                         THEN <<f("accelX"), f("accelY"), f("accelZ")>>
                         ELSE <<0, 0, 0>>
             dt       == F64OfInt(t_toc - t)
             r == <<extrapolate_km(pos_km[1], vel_km[1], accel_km[1], dt),
                    extrapolate_km(pos_km[2], vel_km[2], accel_km[2], dt),
                    extrapolate_km(pos_km[3], vel_km[3], accel_km[3], dt)>>
         IN  Ok(StateVector("cartesian", r, <<F64Zero, F64Zero, F64Zero>>,
                            F64Zero))

\* The rotation applied to the Solver s, when the solver produced one
solver_position_velocity_km(s) ==
    IF IsErr(s) THEN s
    ELSE IF position_velocity_km(s.val) = None THEN Err("NotSupported")
    ELSE Ok(Unwrap(position_velocity_km(s.val)))

\* Ephemeris::sv_position_velocity_km: the results the call may return,
\* one but for the last bit of the sines of the solver
sv_position_velocity_km(e, satellite, t_toc, t, max_iter) ==
    IF is_sbas(satellite.constellation) \/ satellite.constellation = "Glonass"
    THEN {glonass_sbas_position_velocity_km(e, t_toc, t)}
    ELSE IF IsErr(toe(e, satellite)) THEN {toe(e, satellite)}
    ELSE {solver_position_velocity_km(s) :
             s \in to_keplerian_solver(e, satellite, toe(e, satellite).val,
                                       t, max_iter)}

(***************************************************************************)
(* SpecPosVel: sv_position_velocity_km applied to sampled stores: a        *)
(* complete Keplerian or Cartesian message with up to MaxMissing of its    *)
(* fields removed.                                                         *)
(***************************************************************************)
\* Fields missing from a sampled message: 0 .. MaxMissing
MaxMissing == 1

SampleWeek == 1
SampleToe  == 7200

KeplerStore(eccentricity) ==
    [k \in KeplerFields \cup PerturbationFields \cup {"week"} |->
        CASE k = "week"   -> Item("U32", SampleWeek)
          [] k = "toe"    -> Item("F64", SampleToe)
          [] k = "sqrta"  -> Item("F64", 5153)
          [] k = "e"      -> Item("F64", eccentricity)
          [] k = "m0"     -> Item("F64", 1000)
          [] k = "deltaN" -> Item("F64", 45)
          [] OTHER        -> Item("F64", 3)]

CartesianStore ==
    [k \in PositionFields \cup VelocityFields \cup AccelFields |->
        CASE k = "posX"   -> Item("F64", 10000)
          [] k = "posY"   -> Item("F64", 20000)
          [] k = "posZ"   -> Item("F64", 0 - 5000)
          [] k = "velX"   -> Item("F64", 3)
          [] k = "velY"   -> Item("F64", 0 - 2)
          [] k = "velZ"   -> Item("F64", 1)
          [] k = "accelX" -> Item("F64", 3)
          [] k = "accelY" -> Item("F64", 0 - 4)
          [] k = "accelZ" -> Item("F64", 6)]

Without(o, dropped) == [k \in (DOMAIN o) \ dropped |-> o[k]]

Removals(o) == {d \in SUBSET (DOMAIN o) : Cardinality(d) <= MaxMissing}

PosVelEphs ==
    {Store(Without(KeplerStore(x), d)) :
        x \in {100, 9000}, d \in Removals(KeplerStore(100))}
    \cup {Store(orbits_insert(KeplerStore(100), "adot", Item("F64", x))) :
             x \in {1, 0 - 30000}}
    \cup {Store(KeplerStore(5000))}
    \cup {Store(Without(CartesianStore, d)) : d \in Removals(CartesianStore)}
    \cup {Store(orbits_insert(CartesianStore, "velX", Item("F64", 0 - 7)))}

PosVelTocs == {from_time_of_week(SampleWeek, SampleToe, "GPST")}

PosVelDeltas == {0 - 1800, 0, 901}

\* The epochs asked of a satellite lie around its reference time.
PosVelEpochs(e, satellite, t_toc) ==
    {(IF IsOk(toe(e, satellite)) THEN toe(e, satellite).val ELSE t_toc) + d :
        d \in PosVelDeltas}

PosVelBudgets == {1, 2 * MaxIter}

InitPosVel ==
    /\ eph \in PosVelEphs
    /\ sv \in SVs
    /\ toc \in PosVelTocs
    /\ epoch \in PosVelEpochs(eph, sv, toc)
    /\ max_iteration \in PosVelBudgets
    /\ ret = NoCall
    /\ m_k = 0 /\ ecc = 0 /\ i = 0 /\ e_k = 0 /\ e_k_lst = 0 /\ pc = "idle"
    /\ RecordAtRest /\ StoreAtRest /\ ClockAtRest
    /\ ThreadsAtRest /\ StreamAtRest
    /\ RtcmAtRest /\ ObsAtRest

CallSvPositionVelocityKm ==
    /\ ret = NoCall
    /\ \E out \in sv_position_velocity_km(eph, sv, toc, epoch, max_iteration) :
           Call("sv_position_velocity_km", out)

NextPosVel == CallSvPositionVelocityKm

SpecPosVel == InitPosVel /\ [][NextPosVel]_vars

Cartesian(satellite) ==
    is_sbas(satellite.constellation) \/ satellite.constellation = "Glonass"

\* The satellites the Keplerian element set applies to
Keplerian(satellite) ==
    satellite.constellation \in {"GPS", "Galileo", "QZSS", "BeiDou"}

RequiredFields(satellite) ==
    IF Cartesian(satellite) THEN PositionFields \cup VelocityFields
    ELSE KeplerFields \cup PerturbationFields \cup {"week"}

LacksRequired == \E field \in RequiredFields(sv) : ~ Has(eph, field)

Resolved == ret.op = "sv_position_velocity_km"

\* C9: when a required field is absent from the store (one of the 17
\* Keplerian terms for a GPS, Galileo, QZSS or BeiDou satellite, one of
\* posX/Y/Z, velX/Y/Z for a GLONASS or SBAS satellite),
\* sv_position_velocity_km returns the MissingData error; and whatever the
\* constellation, it returns no state vector from such a store.
C9_MissingDataOnAbsentField ==
    (Resolved /\ LacksRequired) =>
        /\ IsErr(ret.out)
        /\ (Cartesian(sv) \/ Keplerian(sv)) => ret.out.err = "MissingData"

\* A harmonic correction term is all that a GPS message lacks.
C9_Witness ==
    /\ Resolved /\ sv.constellation = "GPS"
    /\ ~ Has(eph, "cuc") /\ Has(eph, "sqrta") /\ Has(eph, "week")
    /\ ret.out.err = "MissingData"

(***************************************************************************)
(* Clock correction.  The clock terms of the sampled records are counted   *)
(* in 1/Scale (bias in s, drift in s/s, drift rate in s/s^2).              *)
(***************************************************************************)
\* Constellation::timescale (gnss-rs): the time scale a constellation keeps
timescale(c) ==
    CASE c = "GPS"     -> Some("GPST")
      [] c = "QZSS"    -> Some("QZSST")
      [] c = "Galileo" -> Some("GST")
      [] c = "BeiDou"  -> Some("BDT")
      [] c = "Glonass" -> Some("UTC")
      [] is_sbas(c)    -> Some("GPST")
      [] OTHER         -> None

\* Epoch::to_time_scale: the same instant, counted from the reference epoch
\* of time scale ts.
to_time_scale(t, ts) == [ts |-> ts, s |-> t - TimeScaleRef(ts)]

\* Epoch - Epoch of one time scale, .to_seconds()
epoch_sub_seconds(a, b) == a.s - b.s

\* A Duration: its sign and its whole nanoseconds, in five limbs
DurationOfNanos(p) ==
    [neg |-> p.neg /\ ~ NatIsZero(F64Trunc(p)), ns |-> F64Trunc(p)]

\* Duration::from_seconds: the nanoseconds of an f64 number of seconds, the
\* f64 product x * 1e9 with what is below one nanosecond dropped.
from_seconds(x) == DurationOfNanos(F64Mul(x, F64OfInt(10 ^ 9)))

clock_bias_drift_driftrate(e) ==
    <<F64OfScaled(e.clock_bias), F64OfScaled(e.clock_drift),
      F64OfScaled(e.clock_drift_rate)>>

\* a0 + a1 * dt + a2 * dt.powi(2)
clock_polynomial(a, dt) ==
    F64Add(F64Add(a[1], F64Mul(a[2], dt)), F64Mul(a[3], F64Mul(dt, dt)))

\* dt after n passes of dt -= a0 + a1 * dt + a2 * dt.powi(2)
RECURSIVE clock_refine(_, _, _)
clock_refine(a, dt, n) ==
    IF n = 0 THEN dt
    ELSE clock_refine(a, F64Sub(dt, clock_polynomial(a, dt)), n - 1)

\* dt before the first pass: epoch - toc in the time scale of the satellite
clock_dt(satellite, t_toc, t) ==
    LET sv_ts == Unwrap(timescale(satellite.constellation))
    IN  F64OfInt(epoch_sub_seconds(to_time_scale(t, sv_ts),
                                  to_time_scale(t_toc, sv_ts)))

clock_correction(e, satellite, t_toc, t, num_iter) ==
    IF timescale(satellite.constellation) = None THEN Err("NotSupported")
    ELSE LET a  == clock_bias_drift_driftrate(e)
             dt == clock_refine(a, clock_dt(satellite, t_toc, t), num_iter)
         IN  Ok(from_seconds(clock_polynomial(a, dt)))

(***************************************************************************)
(* SpecClock: clock_correction, one pass of its loop at a time.            *)
(***************************************************************************)
\* Numbers of passes asked by the caller: 0 .. MaxNumIter
MaxNumIter == 3

\* Orbit stores of the sampled records: empty, with a time of ephemeris, with
\* a health word only.
ClockStores ==
    {DefaultEphemeris,
     with_orbit(with_week(DefaultEphemeris, 1), "toe", F64(7200)),
     with_orbit(DefaultEphemeris, "health", F64(0))}

ClockEphs ==
    {[e EXCEPT !.clock_bias = a[1], !.clock_drift = a[2],
               !.clock_drift_rate = a[3]] :
        e \in ClockStores,
        a \in {<<0, 0, 0>>, <<5000, 100, 1>>, <<0 - 3000, 0, 2>>}}

ClockTocs == {from_time_of_week(1, 7200, "GPST")}

ClockDeltas == {0 - 20, 0, 30}

InitClock ==
    /\ eph \in ClockEphs
    /\ sv \in {s \in SVs : s.prn = 5}
    /\ toc \in ClockTocs
    /\ epoch \in {toc + d : d \in ClockDeltas}
    /\ ret = NoCall
    /\ RecordAtRest /\ StoreAtRest /\ SolverAtRest /\ ClockAtRest
    /\ ThreadsAtRest /\ StreamAtRest
    /\ RtcmAtRest /\ ObsAtRest

\* An entry that also rejects a record whose time of ephemeris is unknown.
ClockEnter_requiring_toe(num_iter) ==
    /\ clk.pc = "idle" /\ ret = NoCall
    /\ IF timescale(sv.constellation) = None \/ ~IsOk(toe(eph, sv))
       THEN /\ ret' = [op |-> "clock_correction", out |-> Err("NotSupported")]
            /\ clk' = [clk EXCEPT !.pc = "returned", !.num_iter = num_iter]
       ELSE /\ clk' = [pc |-> "loop", num_iter |-> num_iter, round |-> 0,
                       dt |-> clock_dt(sv, toc, epoch)]
            /\ UNCHANGED ret
    /\ UNCHANGED <<record, eph, sv, toc, epoch, lastSet, solverVars, threadVars, streamVars,
                   rtcmVars, obsVars>>

\* The call is entered: the time scale is resolved, dt is epoch - toc.
ClockEnter(num_iter) ==
    /\ clk.pc = "idle" /\ ret = NoCall
    /\ IF timescale(sv.constellation) = None
       THEN /\ ret' = [op |-> "clock_correction", out |-> Err("NotSupported")]
            /\ clk' = [clk EXCEPT !.pc = "returned", !.num_iter = num_iter]
       ELSE /\ clk' = [pc |-> "loop", num_iter |-> num_iter, round |-> 0,
                       dt |-> clock_dt(sv, toc, epoch)]
            /\ UNCHANGED ret
    /\ UNCHANGED <<record, eph, sv, toc, epoch, lastSet, solverVars, threadVars, streamVars,
                   rtcmVars, obsVars>>

\* for _ in 0..num_iter { dt -= a0 + a1 * dt + a2 * dt.powi(2); }
ClockRound ==
    /\ clk.pc = "loop"
    /\ clk.round < clk.num_iter
    /\ clk' = [clk EXCEPT
                  !.round = @ + 1,
                  !.dt = F64Sub(@, clock_polynomial(
                                      clock_bias_drift_driftrate(eph), @))]
    /\ UNCHANGED <<record, eph, sv, toc, epoch, ret, lastSet, solverVars, threadVars, streamVars,
                   rtcmVars, obsVars>>

\* Faulty variant: the loop is left after its first pass.
ClockReturn_after_first_pass ==
    /\ clk.pc = "loop"
    /\ clk.round = clk.num_iter \/ clk.round = 1
    /\ clk' = [clk EXCEPT !.pc = "returned"]
    /\ ret' = [op |-> "clock_correction",
               out |-> Ok(from_seconds(clock_polynomial(
                              clock_bias_drift_driftrate(eph), clk.dt)))]
    /\ UNCHANGED <<record, eph, sv, toc, epoch, lastSet, solverVars, threadVars, streamVars,
                   rtcmVars, obsVars>>

\* Ok(Duration::from_seconds(a0 + a1 * dt + a2 * dt.powi(2)))
ClockReturn ==
    /\ clk.pc = "loop"
    /\ clk.round = clk.num_iter
    /\ clk' = [clk EXCEPT !.pc = "returned"]
    /\ ret' = [op |-> "clock_correction",
               out |-> Ok(from_seconds(clock_polynomial(
                              clock_bias_drift_driftrate(eph), clk.dt)))]
    /\ UNCHANGED <<record, eph, sv, toc, epoch, lastSet, solverVars, threadVars, streamVars,
                   rtcmVars, obsVars>>

NextClock ==
    \/ \E num_iter \in 0..MaxNumIter : ClockEnter(num_iter)
    \/ ClockRound
    \/ ClockReturn

SpecClock == InitClock /\ [][NextClock]_vars

\* C12: clock_correction performs exactly num_iter updates
\* dt <- dt - (a0 + a1 dt + a2 dt^2) from dt = epoch - toc, without a
\* convergence test or early exit, and returns the polynomial evaluated at
\* the final dt; with num_iter = 0 that is the polynomial at epoch - toc.
C12_ExactlyNumIterPasses ==
    /\ (clk.pc = "loop") =>
           /\ clk.round <= clk.num_iter
           /\ clk.dt = clock_refine(clock_bias_drift_driftrate(eph),
                                    F64OfInt(epoch - toc), clk.round)
    /\ (clk.pc = "returned" /\ IsOk(ret.out)) =>
           /\ clk.round = clk.num_iter
           /\ ret.out.val =
                  from_seconds(clock_polynomial(
                      clock_bias_drift_driftrate(eph),
                      clock_refine(clock_bias_drift_driftrate(eph),
                                   F64OfInt(epoch - toc), clk.num_iter)))
           /\ ret.out = clock_correction(eph, sv, toc, epoch, clk.num_iter)
           /\ clk.num_iter = 0 =>
                  ret.out.val =
                      from_seconds(clock_polynomial(
                          clock_bias_drift_driftrate(eph),
                          F64OfInt(epoch - toc)))

\* Three passes were made, each of which moved dt, before the return.
C12_Witness ==
    /\ clk.pc = "returned" /\ IsOk(ret.out)
    /\ clk.num_iter = 3 /\ clk.round = 3
    /\ eph.clock_bias = 5000 /\ epoch - toc = 30
    /\ clk.dt # clock_refine(clock_bias_drift_driftrate(eph),
                             F64OfInt(epoch - toc), 2)

\* The stored vector of a Cartesian message, zero where a component is absent
StoredVector(e, fields) ==
    [n \in 1..3 |-> IF Has(e, fields[n]) THEN e.orbits[fields[n]].v ELSE 0]

\* C13: for a GLONASS or SBAS satellite the resolved position is
\* r0 + v0 dt + a0 dt^2 / 2 with dt = toc - epoch, r0, v0, a0 the stored
\* posX/Y/Z, velX/Y/Z, accelX/Y/Z, a0 the zero vector when the acceleration
\* is absent from the record; at epoch = toc the position is r0.
C13_TaylorExpansionAboutToc ==
    (Resolved /\ Cartesian(sv) /\ IsOk(ret.out)) =>
        LET r0 == StoredVector(eph, <<"posX", "posY", "posZ">>)
            v0 == StoredVector(eph, <<"velX", "velY", "velZ">>)
            a0 == IF \A field \in AccelFields : Has(eph, field)
                  THEN StoredVector(eph, <<"accelX", "accelY", "accelZ">>)
                  ELSE <<0, 0, 0>>
            dt == toc - epoch
        IN  /\ \A n \in 1..3 :
                   ret.out.val.pos[n]
                       = F64OfRatio(2 * r0[n] + 2 * v0[n] * dt
                                        + a0[n] * dt * dt, 2)
            /\ (epoch = toc) =>
                   \A n \in 1..3 : ret.out.val.pos[n] = F64OfInt(r0[n])

\* A GLONASS position extrapolated away from ToC with its acceleration, an
\* odd acceleration over an odd dt: the position ends on a half.
C13_Witness ==
    /\ Resolved /\ sv.constellation = "Glonass" /\ IsOk(ret.out)
    /\ epoch # toc /\ \A field \in AccelFields : Has(eph, field)
    /\ (eph.orbits["accelX"].v * (toc - epoch)) % 2 = 1
    /\ ret.out.val.pos[1] # F64OfInt(eph.orbits["posX"].v)

\* An SBAS position without acceleration in the record, away from ToC.
C13_WitnessNoAccel ==
    /\ Resolved /\ is_sbas(sv.constellation) /\ IsOk(ret.out)
    /\ epoch # toc /\ ~ Has(eph, "accelY")

\* C14: the dispatch of the orbit resolution is exclusive.  A satellite with
\* is_beidou_geo() is resolved by the dual rotation branch only, a GPS,
\* Galileo or non geostationary BeiDou satellite by the single rotation
\* branch only, a GLONASS or SBAS satellite by the Cartesian propagation and
\* never through the Kepler solver (its only failure is a missing position
\* or velocity term); a Cartesian result never comes from another
\* constellation.
C14_ExclusiveDispatch ==
    Resolved =>
        /\ IsOk(ret.out) =>
               ret.out.val.branch =
                   IF Cartesian(sv) THEN "cartesian"
                   ELSE IF is_beidou_geo(sv) THEN "beidou_geo"
                   ELSE "meo"
        /\ (IsOk(ret.out) /\ ret.out.val.branch = "meo") =>
               sv.constellation \in {"GPS", "Galileo", "BeiDou"}
        /\ (Cartesian(sv) /\ IsErr(ret.out)) => ret.out.err = "MissingData"
        /\ (Cartesian(sv) /\ ~ LacksRequired) => IsOk(ret.out)

\* A geostationary BeiDou satellite resolved by the dual rotation.
C14_Witness ==
    /\ Resolved /\ is_beidou_geo(sv) /\ IsOk(ret.out)
    /\ ret.out.val.branch = "beidou_geo"


(***************************************************************************)
(* SpecConcurrent: several threads hold a shared reference to one parsed   *)
(* Rinex and call the navigation engine on it.  Every method takes &self;  *)
(* a step of a thread is one pass of the selector's iterator chain over    *)
(* the next entry of the record, or a whole method of one Ephemeris.       *)
(***************************************************************************)
Threads == {1, 2}

ThreadIdle ==
    [pc |-> "idle", op |-> "none", sv |-> [constellation |-> "GPS", prn |-> 5],
     t |-> 0, n |-> 0, num |-> 0, cursor |-> 0, key |-> 0, best |-> None,
     out |-> None]

SharedBase == from_time_of_week(SampleWeek, 0, "GPST")

SharedClocked(e) ==
    [e EXCEPT !.clock_bias = 5000, !.clock_drift = 100, !.clock_drift_rate = 1]

\* The parsed file: two GPS, one GLONASS and two SBAS messages.
SharedRecord ==
    LET gps   == [constellation |-> "GPS", prn |-> 5]
        glo   == [constellation |-> "Glonass", prn |-> 5]
        geo   == [constellation |-> "SBAS", prn |-> 5]
        early == with_orbit(Store(KeplerStore(100)), "toe", F64(0))
        late  == SharedClocked(Store(KeplerStore(100)))
        r1 == record_insert(<<>>, Entry(gps, SharedBase + SampleToe, late))
        r2 == record_insert(r1, Entry(geo, SharedBase + 3600, Store(CartesianStore)))
        r3 == record_insert(r2, Entry(glo, SharedBase + 3600,
                                      SharedClocked(Store(CartesianStore))))
        r4 == record_insert(r3, Entry(gps, SharedBase, early))
    IN  record_insert(r4, Entry(geo, SharedBase, Store(CartesianStore)))

SharedSVs == {s \in SVs : s.prn = 5 /\ s.constellation \in {"GPS", "SBAS"}}

SharedEpochs == {SharedBase + 3600, SharedBase + 7000}

SharedNumIter == 2
SharedMaxIteration == 10

EphemerisMethods == {"is_valid", "clock_correction", "sv_position_velocity_km"}

InitConcurrent ==
    /\ record = SharedRecord
    /\ threads = [th \in Threads |-> ThreadIdle]
    /\ eph = DefaultEphemeris
    /\ sv = [constellation |-> "GPS", prn |-> 5]
    /\ toc = 0
    /\ epoch = 0
    /\ ret = NoCall
    /\ StoreAtRest /\ SolverAtRest /\ ClockAtRest /\ StreamAtRest
    /\ RtcmAtRest /\ ObsAtRest

\* The selector's closure and ranking key for one entry of the record.
selection_candidate(k, satellite, t) ==
    IF is_sbas(satellite.constellation)
    THEN sbas_candidate(k, satellite)
    ELSE other_candidate(k, satellite, t)

selection_key(item, satellite, t) ==
    IF is_sbas(satellite.constellation)
    THEN t - item.toc
    ELSE Abs(t - item.toe)

\* rinex.nav_ephemeris_selection(sv, t): the iterator chain is built.
ThreadSelect(th, satellite, t) ==
    /\ threads[th].pc = "idle"
    /\ threads' = [threads EXCEPT ![th] =
                      [ThreadIdle EXCEPT !.pc = "iter",
                                         !.op = "nav_ephemeris_selection",
                                         !.sv = satellite, !.t = t,
                                         !.cursor = 1]]
    /\ UNCHANGED <<record, eph, sv, toc, epoch, ret, lastSet, solverVars,
                   clockVars, streamVars,
                   rtcmVars, obsVars>>

\* One pass of filter_map / min_by_key: the next entry is read through the
\* shared reference, the minimum is replaced by a strictly smaller key only.
SelectionNext(th) ==
    LET l == threads[th]
    IN  /\ l.pc = "iter"
        /\ l.cursor <= Len(record)
        /\ LET cand == selection_candidate(record[l.cursor], l.sv, l.t)
               k    == selection_key(Unwrap(cand), l.sv, l.t)
           IN  threads' = [threads EXCEPT ![th] =
                   IF IsSome(cand) /\ (l.best = None \/ k < l.key)
                   THEN [l EXCEPT !.cursor = l.cursor + 1, !.key = k,
                                  !.best = cand]
                   ELSE [l EXCEPT !.cursor = l.cursor + 1]]
        /\ UNCHANGED <<record, eph, sv, toc, epoch, ret, lastSet, solverVars,
                       clockVars, streamVars,
                   rtcmVars, obsVars>>

\* The iterator is exhausted: min_by_key returns the minimum it kept.
SelectionReturn(th) ==
    LET l == threads[th]
    IN  /\ l.pc = "iter"
        /\ l.cursor > Len(record)
        /\ threads' = [threads EXCEPT ![th] =
                          [l EXCEPT !.pc = "done", !.out = Some(l.best)]]
        /\ UNCHANGED <<record, eph, sv, toc, epoch, ret, lastSet, solverVars,
                       clockVars, streamVars,
                   rtcmVars, obsVars>>

\* A method of the n-th Ephemeris of the collection is entered.
ThreadCall(th, op, n, t) ==
    /\ threads[th].pc = "idle"
    /\ n \in 1..Len(record)
    /\ threads' = [threads EXCEPT ![th] =
                      [ThreadIdle EXCEPT
                          !.pc = "call", !.op = op, !.sv = record[n].sv,
                          !.t = t, !.n = n,
                          !.num = IF op = "clock_correction"
                                  THEN SharedNumIter
                                  ELSE IF op = "sv_position_velocity_km"
                                  THEN SharedMaxIteration ELSE 0]]
    /\ UNCHANGED <<record, eph, sv, toc, epoch, ret, lastSet, solverVars,
                   clockVars, streamVars,
                   rtcmVars, obsVars>>

\* The results a method of an Ephemeris read through a shared reference may
\* return.
ephemeris_method(op, k, t, num) ==
    CASE op = "is_valid" -> {is_valid(k.eph, k.sv, k.epoch, t)}
      [] op = "clock_correction" ->
             {clock_correction(k.eph, k.sv, k.epoch, t, num)}
      [] op = "sv_position_velocity_km" ->
             sv_position_velocity_km(k.eph, k.sv, k.epoch, t, num)

\* The method returns.
ThreadReturn(th) ==
    LET l == threads[th]
    IN  /\ l.pc = "call"
        /\ \E out \in ephemeris_method(l.op, record[l.n], l.t, l.num) :
               threads' = [threads EXCEPT ![th] =
                              [l EXCEPT !.pc = "done", !.out = Some(out)]]
        /\ UNCHANGED <<record, eph, sv, toc, epoch, ret, lastSet, solverVars,
                       clockVars, streamVars,
                   rtcmVars, obsVars>>

\* The caller drops the result.
ThreadDrop(th) ==
    /\ threads[th].pc = "done"
    /\ threads' = [threads EXCEPT ![th] = ThreadIdle]
    /\ UNCHANGED <<record, eph, sv, toc, epoch, ret, lastSet, solverVars,
                   clockVars, streamVars,
                   rtcmVars, obsVars>>

NextConcurrent ==
    \E th \in Threads :
        \/ \E satellite \in SharedSVs, t \in SharedEpochs :
               ThreadSelect(th, satellite, t)
        \/ SelectionNext(th)
        \/ SelectionReturn(th)
        \/ \E op \in EphemerisMethods, n \in 1..Len(record), t \in SharedEpochs :
               ThreadCall(th, op, n, t)
        \/ ThreadReturn(th)
        \/ ThreadDrop(th)

SpecConcurrent == InitConcurrent /\ [][NextConcurrent]_vars

(***************************************************************************)
(* BINEX bridge: Ephemeris::to_binex forges an EphemerisFrame from the     *)
(* clock terms and the orbit store, Ephemeris::from_binex builds an        *)
(* Ephemeris from a frame.  Stored values are integers here.               *)
(***************************************************************************)
\* OrbitItem::as_u8: `as u8` saturates to 0 ..= 255.
as_u8(item) == IF item.v < 0 THEN 0 ELSE IF item.v > 255 THEN 255 ELSE item.v

\* f64 `as u16`: saturates to 0 ..= 65535.
as_u16(x) == IF x < 0 THEN 0 ELSE IF x > 65535 THEN 65535 ELSE x

\* u32 `as i32`: values above i32::MAX wrap to negative numbers.
as_i32(x) ==
    LET max == (2 ^ 30 - 1) * 2 + 1
    IN  IF x > max THEN ((x - max) - max) - 2 ELSE x

\* The spacing of the f32 numbers around an integer of magnitude x.
RECURSIVE f32_ulp(_, _)
f32_ulp(x, step) == IF x \div step < 2 ^ 24 THEN step ELSE f32_ulp(x, step * 2)

\* f64 `as f32`: rounds to a 24 bit significand, ties to even.
as_f32(x) ==
    LET step == f32_ulp(Abs(x), 1)
        down == (Abs(x) \div step) * step
        rest == Abs(x) - down
        mag  == IF 2 * rest < step THEN down
                ELSE IF 2 * rest > step THEN down + step
                ELSE IF (down \div step) % 2 = 0 THEN down ELSE down + step
    IN  IF x < 0 THEN 0 - mag ELSE mag

\* Epoch::to_time_of_week: (week, time of week), the latter counted in seconds.
to_time_of_week(t) == <<t \div WeekSeconds, t % WeekSeconds>>

\* Ephemeris::get_orbit_f64
get_orbit_f64(e, field) ==
    IF Has(e, field) THEN Some(as_f64(e.orbits[field])) ELSE None

unwrap_or_default(o) == IF IsSome(o) THEN Unwrap(o) ELSE 0

\* f64 `as i32`: saturates to i32::MIN ..= i32::MAX.
f64_as_i32(x) ==
    LET max == (2 ^ 30 - 1) * 2 + 1
    IN  IF x > max THEN max ELSE IF x < (0 - max) - 1 THEN (0 - max) - 1 ELSE x

\* The keys the GPS / QZSS branch reads with `?`.
GpsBinexKeys ==
    {"toe", "cic", "crc", "cis", "crs", "cuc", "cus", "health", "e", "m0",
     "i0", "sqrta", "omega", "omega0", "oemgaDot", "idot", "delta_n", "tgd",
     "iode", "iodc"}

\* The keys the GLONASS branch reads with `?`.
GloBinexKeys ==
    {"health", "satPosX", "velX", "accelX", "velY", "accelY", "velZ", "accelZ"}

\* The keys the Galileo branch reads with `?`.
GalBinexKeys ==
    {"cic", "crc", "cis", "crs", "cuc", "cus", "e", "m0", "i0", "sqrta",
     "omega", "omega0", "oemgaDot", "idot", "delta_n", "health"}

\* The keys the SBAS branch reads with `?`.
SbasBinexKeys ==
    {"satPosX", "velX", "accelX", "velY", "accelY", "velZ", "accelZ", "iodn"}

\* Ephemeris::to_binex
to_binex(e, t_toc, satellite) ==
    LET tow == to_time_of_week(t_toc)[2]
        f(key) == as_f64(e.orbits[key])
    IN  CASE satellite.constellation \in {"GPS", "QZSS"} ->
               IF \E key \in GpsBinexKeys : ~ Has(e, key) THEN None
               ELSE Some([kind |-> "GPS", sv_prn |-> satellite.prn,
                          iode |-> as_i32(as_u32(e.orbits["iode"])),
                          iodc |-> as_i32(as_u32(e.orbits["iodc"])),
                          toe |-> as_u16(f("toe")), tow |-> tow, toc |-> tow,
                          tgd |-> as_f32(f("tgd")),
                          clock_offset |-> as_f32(e.clock_bias),
                          clock_drift |-> as_f32(e.clock_drift),
                          clock_drift_rate |-> as_f32(e.clock_drift_rate),
                          delta_n_rad_s |-> as_f32(f("delta_n")),
                          m0_rad |-> f("m0"), e |-> f("e"),
                          sqrt_a |-> f("sqrta"),
                          cic |-> as_f32(f("cic")), crc |-> as_f32(f("crc")),
                          cis |-> as_f32(f("cis")), crs |-> as_f32(f("crs")),
                          cuc |-> as_f32(f("cuc")), cus |-> as_f32(f("cus")),
                          omega_0_rad |-> f("omega0"), omega_rad |-> f("omega"),
                          i_dot_rad_s |-> as_f32(f("idot")),
                          omega_dot_rad_s |-> as_f32(f("oemgaDot")),
                          i0_rad |-> f("i0"), ura_m |-> 0,
                          sv_health |-> as_u16(f("health")), uint2 |-> 0])
          [] satellite.constellation = "Glonass" ->
               IF \E key \in GloBinexKeys : ~ Has(e, key) THEN None
               ELSE Some([kind |-> "GLO", slot |-> 0, day |-> 0, tod_s |-> 0,
                          clock_offset_s |-> e.clock_bias,
                          clock_rel_freq_bias |-> e.clock_drift,
                          t_k_sec |-> 0,
                          x_km |-> f("satPosX"), vel_x_km |-> f("velX"),
                          acc_x_km |-> f("accelX"),
                          y_km |-> f("satPosX"), vel_y_km |-> f("velY"),
                          acc_y_km |-> f("accelY"),
                          z_km |-> f("satPosX"), vel_z_km |-> f("velZ"),
                          acc_z_km |-> f("accelZ"),
                          sv_health |-> as_u8(e.orbits["health"]),
                          freq_channel |-> 0, age_op_days |-> 0, leap_s |-> 0,
                          tau_gps_s |-> 0, l1_l2_gd |-> 0])
          [] satellite.constellation = "Galileo" ->
               IF \E key \in GalBinexKeys : ~ Has(e, key) THEN None
               ELSE IF IsErr(toe(e, satellite)) THEN None
               ELSE LET t_toe == to_time_of_week(toe(e, satellite).val)
                    IN  Some([kind |-> "GAL", sv_prn |-> satellite.prn,
                              tow |-> tow, toe_week |-> as_u16(t_toe[1]),
                              toe_s |-> t_toe[2],
                              bgd_e5a_e1_s |-> 0, bgd_e5b_e1_s |-> 0,
                              iodnav |->
                                  f64_as_i32(unwrap_or_default(get_orbit_f64(e, "iodnav"))),
                              clock_drift_rate |-> as_f32(e.clock_drift_rate),
                              clock_drift |-> as_f32(e.clock_drift),
                              clock_offset |-> as_f32(e.clock_bias),
                              delta_n_semi_circles_s |-> as_f32(f("delta_n")),
                              m0_rad |-> f("m0"), e |-> f("e"),
                              sqrt_a |-> f("sqrta"),
                              cic |-> as_f32(f("cic")), crc |-> as_f32(f("crc")),
                              cis |-> as_f32(f("cis")), cuc |-> as_f32(f("cuc")),
                              cus |-> as_f32(f("cus")), crs |-> as_f32(f("crs")),
                              omega_0_rad |-> f("omega0"),
                              omega_rad |-> f("omega"), i0_rad |-> f("i0"),
                              omega_dot_semi_circles |-> as_f32(f("oemgaDot")),
                              idot_semi_circles_s |-> as_f32(f("idot")),
                              sisa |-> as_f32(unwrap_or_default(get_orbit_f64(e, "sisa"))),
                              sv_health |-> as_u16(f("health")), source |-> 0])
          [] is_sbas(satellite.constellation) ->
               IF \E key \in SbasBinexKeys : ~ Has(e, key) THEN None
               ELSE Some([kind |-> "SBAS", sbas_prn |-> satellite.prn,
                          toe |-> 0, tow |-> 0,
                          clock_offset |-> e.clock_bias,
                          clock_drift |-> e.clock_drift,
                          x_km |-> f("satPosX"), vel_x_km |-> f("velX"),
                          acc_x_km |-> f("accelX"),
                          y_km |-> f("satPosX"), vel_y_km |-> f("velY"),
                          acc_y_km |-> f("accelY"),
                          z_km |-> f("satPosX"), vel_z_km |-> f("velZ"),
                          acc_z_km |-> f("accelZ"),
                          uint1 |-> 0, ura |-> 0,
                          iodn |-> as_u8(e.orbits["iodn"])])
          [] OTHER -> None

\* SV::new
SV_new(constellation, prn) == [constellation |-> constellation, prn |-> prn]

\* Ephemeris::from_binex: the week number is the only field populated.
from_binex(now, message) ==
    LET decoded == Store([k \in {"week"} |-> F64(0)])
    IN  CASE message.kind = "GPS"  -> Some(<<SV_new("GPS", message.sv_prn), decoded>>)
          [] message.kind = "SBAS" -> Some(<<SV_new("SBAS", message.sbas_prn), decoded>>)
          [] message.kind = "GLO"  -> Some(<<SV_new("Glonass", message.slot), decoded>>)
          [] message.kind = "GAL"  -> Some(<<SV_new("Galileo", message.sv_prn), decoded>>)
          [] OTHER -> None

(***************************************************************************)
(* SpecBinex: a sampled message is encoded, and the frame decoded again.   *)
(***************************************************************************)
\* The field names of the orbit store the codecs are to read.
VocabularyFields ==
    {"toe", "e", "sqrta", "i0", "omega", "omega0", "m0", "cus", "cuc", "cis",
     "cic", "crs", "crc", "idot", "deltaN", "omegaDot", "health", "tgd",
     "iode", "iodc", "posX", "posY", "posZ", "velX", "velY", "velZ",
     "accelX", "accelY", "accelZ"}

\* Further names Ephemeris::to_binex asks the store for.
CodecFields == {"oemgaDot", "delta_n", "satPosX", "iodn"}

BinexFieldOrder ==
    <<"toe", "e", "sqrta", "i0", "omega", "omega0", "m0", "cus", "cuc", "cis",
      "cic", "crs", "crc", "idot", "deltaN", "omegaDot", "health", "tgd",
      "iode", "iodc", "posX", "posY", "posZ", "velX", "velY", "velZ",
      "accelX", "accelY", "accelZ", "oemgaDot", "delta_n", "satPosX", "iodn">>

\* A store holding the given names: the week, a time of week in the middle
\* of the week, and for every other field a value of its own.
BinexStore(names) ==
    [k \in names \cup {"week"} |->
        CASE k = "week" -> Item("U32", SampleWeek)
          [] k = "toe"  -> Item("F64", 4 * 86400)
          [] OTHER      -> Item("F64", 10 + CHOOSE n \in 1..Len(BinexFieldOrder) :
                                                BinexFieldOrder[n] = k)]

\* The sampled messages: a store with the public names, or with the names the
\* encoder asks for as well, complete or lacking one field.
BinexEphs ==
    {SharedClocked(Store(Without(BinexStore(names), d))) :
        names \in {VocabularyFields, VocabularyFields \cup CodecFields},
        d \in {{}} \cup {{k} : k \in VocabularyFields \cup CodecFields}}

BinexTocs == {from_time_of_week(SampleWeek, SampleToe, "GPST")}

InitBinex ==
    /\ eph \in BinexEphs
    /\ sv \in SVs
    /\ toc \in BinexTocs
    /\ epoch = toc
    /\ ret = NoCall
    /\ RecordAtRest /\ StoreAtRest /\ SolverAtRest /\ ClockAtRest
    /\ ThreadsAtRest /\ StreamAtRest
    /\ RtcmAtRest /\ ObsAtRest

\* ephemeris.to_binex(k.epoch, k.sv)
CallToBinex ==
    /\ ret = NoCall
    /\ Call("to_binex", to_binex(eph, toc, sv))

\* Ephemeris::from_binex(k.epoch, serialized)
CallFromBinex ==
    /\ ret.op = "to_binex"
    /\ IsSome(ret.out)
    /\ Call("from_binex", from_binex(epoch, Unwrap(ret.out)))

NextBinex == CallToBinex \/ CallFromBinex

SpecBinex == InitBinex /\ [][NextBinex]_vars

BinexEncodable(satellite) ==
    \/ satellite.constellation \in {"GPS", "QZSS", "Galileo", "Glonass"}
    \/ is_sbas(satellite.constellation)

\* C16: to_binex returns a frame for every GPS, QZSS, Galileo, GLONASS or SBAS
\* message whose store holds the whole public vocabulary, and the frame
\* carries each position axis as stored under the name of that axis.
C16_PublicVocabularyRead ==
    (/\ ret.op = "to_binex"
     /\ BinexEncodable(sv)
     /\ VocabularyFields \subseteq DOMAIN eph.orbits) =>
        /\ IsSome(ret.out)
        /\ Unwrap(ret.out).kind \in {"GLO", "SBAS"} =>
               /\ Unwrap(ret.out).x_km = as_f64(eph.orbits["posX"])
               /\ Unwrap(ret.out).y_km = as_f64(eph.orbits["posY"])
               /\ Unwrap(ret.out).z_km = as_f64(eph.orbits["posZ"])

\* C17: decoding the frame a message was encoded to gives back the satellite
\* and a store with the field names of the message, so toe() succeeds on the
\* decoded message whenever it succeeds on the encoded one.
C17_BinexRoundTrip ==
    ret.op = "from_binex" =>
        /\ IsSome(ret.out)
        /\ Unwrap(ret.out)[1] = sv
        /\ DOMAIN Unwrap(ret.out)[2].orbits = DOMAIN eph.orbits
        /\ IsOk(toe(eph, sv)) => IsOk(toe(Unwrap(ret.out)[2], sv))


(***************************************************************************)
(* RNX2UBX: the streamer of ublox/nav.rs serialises the ephemeris of a     *)
(* Rinex into the buffer of each read.  A byte of a frame is named by the  *)
(* satellite and clock bias of its message and its place in the frame.     *)
(***************************************************************************)
\* The lengths of the MGA-GPS-EPH, MGA-BDS-EPH and MGA-GLO-EPH packets.
MgaGpsEphLen == 76
MgaBdsEphLen == 96
MgaGloEphLen == 56

\* builder.into_packet_bytes()
into_packet_bytes(e, satellite, len) ==
    [at \in 1..len |-> <<satellite.constellation, satellite.prn, e.clock_bias, at>>]

\* The fields the encoders read with `.ok()?`.
GpsUbxKeys ==
    {"toe", "tgd", "iodc", "health", "cuc", "cus", "cic", "cis", "crc", "crs",
     "e", "sqrta", "omega0", "omega", "omegaDot", "deltaN", "m0", "i0", "idot"}

BdsUbxKeys ==
    {"accuracy", "cuc", "cus", "cic", "cis", "crc", "crs", "e", "sqrta",
     "omega0", "omega", "omegaDot", "deltaN", "m0", "i0", "idot", "toe"}

GloUbxKeys ==
    {"health", "channel", "ageOp", "posX", "posY", "posZ", "velX", "velY",
     "velZ", "accelX", "accelY", "accelZ"}

\* Ephemeris::to_ubx_mga_gps_qzss
to_ubx_mga_gps_qzss(e, t_toc, satellite) ==
    IF satellite.constellation \notin {"GPS", "QZSS"} THEN None
    ELSE IF \E key \in GpsUbxKeys : IsErr(get_orbit_field_f64(e, key)) THEN None
    ELSE Some(into_packet_bytes(e, satellite, MgaGpsEphLen))

\* Ephemeris::to_ubx_mga_bds
to_ubx_mga_bds(e, t_toc, satellite) ==
    IF satellite.constellation # "BeiDou" THEN None
    ELSE IF \E key \in BdsUbxKeys : IsErr(get_orbit_field_f64(e, key)) THEN None
    ELSE Some(into_packet_bytes(e, satellite, MgaBdsEphLen))

\* Ephemeris::to_ubx_mga_glo
to_ubx_mga_glo(e, satellite) ==
    IF satellite.constellation # "Glonass" THEN None
    ELSE IF \E key \in GloUbxKeys : IsErr(get_orbit_field_f64(e, key)) THEN None
    ELSE Some(into_packet_bytes(e, satellite, MgaGloEphLen))

\* The match of the read loop on key.sv.constellation: the bytes of the
\* packet of one entry, None when it is skipped.
ubx_frame(k) ==
    CASE k.sv.constellation = "GPS"     -> to_ubx_mga_gps_qzss(k.eph, k.epoch, k.sv)
      [] k.sv.constellation = "QZSS"    -> to_ubx_mga_gps_qzss(k.eph, k.epoch, k.sv)
      [] k.sv.constellation = "BeiDou"  -> to_ubx_mga_bds(k.eph, k.epoch, k.sv)
      [] k.sv.constellation = "Glonass" -> to_ubx_mga_glo(k.eph, k.sv)
      [] OTHER -> None

\* Streamer::new
Streamer_new ==
    [pending_size |-> 0, buffer |-> <<>>, ephemeris_iter |-> 1,
     out |-> <<>>, last |-> [op |-> "none", len |-> 0, out |-> Ok(0), bytes |-> <<>>]]

\* self.buffer[..new_len].copy_from_slice(&bytes): bytes beyond new_len stay.
copy_from_slice(buffer, bytes) ==
    bytes \o SubSeq(buffer, Len(bytes) + 1, Len(buffer))

\* self.pending_size = new_len; ...; return Ok(size): the frame that does not
\* fit is kept for the next read.
postpone(it, bytes, size, written) ==
    [ephemeris_iter |-> it + 1, postponed |-> bytes, size |-> size,
     written |-> written]

\* The loop of Streamer::read: from the entry `it` of the iterator on, with
\* `size` bytes written and `size_avail` bytes free.
RECURSIVE read_loop(_, _, _, _, _)
read_loop(rec, it, size, size_avail, written) ==
    IF it > Len(rec)
    THEN [ephemeris_iter |-> it, postponed |-> None, size |-> size,
          written |-> written]
    ELSE LET bytes == ubx_frame(rec[it])
         IN  IF IsSome(bytes)
             THEN LET new_len == Len(Unwrap(bytes))
                  IN  IF size_avail > new_len
                      THEN read_loop(rec, it + 1, size + new_len,
                                     size_avail - new_len,
                                     written \o Unwrap(bytes))
                      ELSE postpone(it, bytes, size, written)
             ELSE read_loop(rec, it + 1, size, size_avail, written)

(***************************************************************************)
(* SpecStream: a streamer is deployed on a sampled Rinex and read with     *)
(* buffers of sampled lengths until, and after, the end of the stream.     *)
(***************************************************************************)
\* Entries of the sampled Rinex: 0 .. MaxStream
MaxStream == 3

UbxStore(names) == Store([k \in names |-> Item("F64", 1)])

\* Messages of the sampled files: complete GPS, QZSS, GLONASS and BeiDou
\* messages, a GPS message lacking a field, a Galileo message.
UbxEntries ==
    {Entry([constellation |-> "GPS", prn |-> 5], SharedBase,
           [UbxStore(GpsUbxKeys) EXCEPT !.clock_bias = 1]),
     Entry([constellation |-> "GPS", prn |-> 6], SharedBase + 1,
           [UbxStore(GpsUbxKeys \ {"tgd"}) EXCEPT !.clock_bias = 2]),
     Entry([constellation |-> "Glonass", prn |-> 5], SharedBase + 2,
           [UbxStore(GloUbxKeys) EXCEPT !.clock_bias = 3]),
     Entry([constellation |-> "BeiDou", prn |-> 5], SharedBase + 3,
           [UbxStore(BdsUbxKeys) EXCEPT !.clock_bias = 4]),
     Entry([constellation |-> "Galileo", prn |-> 5], SharedBase + 4,
           [UbxStore(GpsUbxKeys) EXCEPT !.clock_bias = 5]),
     Entry([constellation |-> "QZSS", prn |-> 5], SharedBase + 5,
           [UbxStore(GpsUbxKeys) EXCEPT !.clock_bias = 6])}

\* BTreeMap: the entries of a file in key order.
RECURSIVE record_of(_)
record_of(entries) ==
    IF entries = {} THEN <<>>
    ELSE LET k == CHOOSE x \in entries : TRUE
         IN  record_insert(record_of(entries \ {k}), k)

UbxRecords ==
    {record_of(entries) :
        entries \in {x \in SUBSET UbxEntries : Cardinality(x) <= MaxStream}}

\* buffer.len() of the reads
BufferLens == {60, 76, 100, 152, 300}

InitStream ==
    /\ record \in UbxRecords
    /\ ubx = Streamer_new
    /\ eph = DefaultEphemeris
    /\ sv = [constellation |-> "GPS", prn |-> 5]
    /\ toc = 0
    /\ epoch = 0
    /\ ret = NoCall
    /\ StoreAtRest /\ SolverAtRest /\ ClockAtRest /\ ThreadsAtRest
    /\ RtcmAtRest /\ ObsAtRest

\* A read that gives up the pending packet it cannot deliver.
Read_dropping_pending(len) ==
    /\ ubx # <<>>
    /\ IF ubx.pending_size > 0 /\ len < ubx.pending_size
       THEN ubx' = [ubx EXCEPT !.pending_size = 0,
                         !.last = [op |-> "read", len |-> len,
                                          out |-> Err("StorageFull"),
                                          bytes |-> <<>>]]
       ELSE LET r == read_loop(record, ubx.ephemeris_iter, ubx.pending_size,
                               len - ubx.pending_size,
                               SubSeq(ubx.buffer, 1, ubx.pending_size))
            IN  ubx' = [pending_size |-> IF IsSome(r.postponed)
                                         THEN Len(Unwrap(r.postponed)) ELSE 0,
                        buffer |-> IF IsSome(r.postponed)
                                   THEN copy_from_slice(ubx.buffer,
                                                        Unwrap(r.postponed))
                                   ELSE ubx.buffer,
                        ephemeris_iter |-> r.ephemeris_iter,
                        out |-> ubx.out \o r.written,
                        last |-> [op |-> "read", len |-> len,
                                  out |-> Ok(r.size), bytes |-> r.written]]
    /\ UNCHANGED <<record, eph, sv, toc, epoch, ret, lastSet, solverVars,
                   clockVars, threadVars,
                   rtcmVars, obsVars>>

\* Streamer::read(buffer), with buffer.len() = len
Read(len) ==
    /\ ubx # <<>>
    /\ IF ubx.pending_size > 0 /\ len < ubx.pending_size
       THEN ubx' = [ubx EXCEPT !.last = [op |-> "read", len |-> len,
                                          out |-> Err("StorageFull"),
                                          bytes |-> <<>>]]
       ELSE LET r == read_loop(record, ubx.ephemeris_iter, ubx.pending_size,
                               len - ubx.pending_size,
                               SubSeq(ubx.buffer, 1, ubx.pending_size))
            IN  ubx' = [pending_size |-> IF IsSome(r.postponed)
                                         THEN Len(Unwrap(r.postponed)) ELSE 0,
                        buffer |-> IF IsSome(r.postponed)
                                   THEN copy_from_slice(ubx.buffer,
                                                        Unwrap(r.postponed))
                                   ELSE ubx.buffer,
                        ephemeris_iter |-> r.ephemeris_iter,
                        out |-> ubx.out \o r.written,
                        last |-> [op |-> "read", len |-> len,
                                  out |-> Ok(r.size), bytes |-> r.written]]
    /\ UNCHANGED <<record, eph, sv, toc, epoch, ret, lastSet, solverVars,
                   clockVars, threadVars,
                   rtcmVars, obsVars>>

NextStream == \E len \in BufferLens : Read(len)

SpecStream == InitStream /\ [][NextStream]_vars

\* The packets of the entries first .. last of a file, in record order.
RECURSIVE FramesOf(_, _, _)
FramesOf(rec, first, last) ==
    IF first > last THEN <<>>
    ELSE (IF IsSome(ubx_frame(rec[first])) THEN Unwrap(ubx_frame(rec[first]))
          ELSE <<>>) \o FramesOf(rec, first + 1, last)

FullyConsumed == ubx.ephemeris_iter > Len(record) /\ ubx.pending_size = 0

\* C18: a read returns Ok(0) only once the Rinex is fully consumed: the
\* iterator is exhausted and no frame is pending.
C18_ZeroOnlyAtEndOfStream ==
    (ubx # <<>> /\ ubx.last.op = "read" /\ IsOk(ubx.last.out)
        /\ ubx.last.out.val = 0) => FullyConsumed

\* The last read returned Ok(0), which the caller takes for the end of the
\* stream.
ReadZero ==
    ubx.last.op = "read" /\ IsOk(ubx.last.out) /\ ubx.last.out.val = 0

\* C19: a frame that does not fit is postponed and nothing is lost: the
\* bytes reported by the successful reads, followed by the postponed frame,
\* are the packets of the entries taken so far, in record order, and by the
\* time a read returns Ok(0) the bytes reported are the packets of every
\* encodable GPS, QZSS, BeiDou and GLONASS message of the record, each once
\* and whole, in record order.
C19_AllFramesReportedByOkZero ==
    ubx # <<>> =>
        /\ ubx.out \o SubSeq(ubx.buffer, 1, ubx.pending_size)
               = FramesOf(record, 1, ubx.ephemeris_iter - 1)
        /\ ReadZero => ubx.out = FramesOf(record, 1, Len(record))

\* C20: a successful read returns no more than buffer.len() bytes, made of
\* whole packets, and postpones a packet only when it is longer than the
\* space left in the buffer.
C20_FillsWithWholeFrames ==
    (ubx # <<>> /\ ubx.last.op = "read" /\ IsOk(ubx.last.out)) =>
        /\ ubx.last.out.val <= ubx.last.len
        /\ ubx.last.out.val = Len(ubx.last.bytes)
        /\ \E first \in 1..(Len(record) + 1), last \in 0..Len(record) :
               ubx.last.bytes = FramesOf(record, first, last)
        /\ ubx.pending_size > 0 =>
               ubx.pending_size > ubx.last.len - ubx.last.out.val


(***************************************************************************)
(* RNX2RTCM: the streamer of rtcm/nav.rs turns the ephemeris of a Rinex    *)
(* into RTCM messages, one per call of next().                             *)
(***************************************************************************)
\* The fields the RTCM encoders read with `?`.
Msg1019Keys ==
    {"idot", "iodc", "crs", "deltaN", "m0", "cic", "cis", "cuc", "cus", "e",
     "sqrta", "i0", "iode", "crc", "omega", "omegaDot", "omega0", "health",
     "l2p"}

Msg1045Keys ==
    {"crc", "crs", "cic", "cis", "cuc", "cus", "deltaN", "e", "i0", "m0",
     "idot", "omega0", "omega", "omegaDot", "sqrta"}

Msg1042Keys == Msg1045Keys

Msg1044Keys == Msg1019Keys \cup {"tgd"}

\* An f32 is man * 2^exp, man zero or 2^23 <= man < 2^24.  The 24 leading
\* bits m of a longer number, rounded up or left.
F32Cut(m, e, up) ==
    IF ~ up THEN [exp |-> e, man |-> m]
    ELSE IF m = 2 ^ 24 - 1 THEN [exp |-> e + 1, man |-> 2 ^ 23]
    ELSE [exp |-> e, man |-> m + 1]

F32Long(n, e, s, m) == F32Cut(m[1] + m[2] * W, e + s, RoundsUp(n, s, m))

F32Bits(n, e, bits) ==
    IF bits <= 24
    THEN F32Cut(ShiftLeft(n, 24 - bits, 2)[1]
                    + ShiftLeft(n, 24 - bits, 2)[2] * W,
                e - (24 - bits), FALSE)
    ELSE F32Long(n, e, bits - 24, ShiftRight(n, bits - 24, 2))

\* The f32 nearest to n * 2^e, ties to even, n a whole number in limbs
F32Round(n, e) ==
    IF NatIsZero(n) THEN [exp |-> 0, man |-> 0] ELSE F32Bits(n, e, NatBits(n))

\* x * y in f32
F32Mul(x, y) ==
    F32Round(NatMul(NatOfInt(x.man), NatOfInt(y.man)), x.exp + y.exp)

\* (toc_nanos as f32) * 1.0E-9 for the whole second t of the week: the
\* nanoseconds rounded to an f32, times the f32 nearest to 1e-9, which is
\* 9007199 * 2^-53.
toc_s(t) ==
    F32Mul(F32Round(NatMul(NatOfInt(t), NatOfInt(10 ^ 9)), 0),
           [exp |-> 0 - 53, man |-> 9007199])

\* An RTCM ephemeris message: its number, satellite and time of clock.
rtcm_message(number, t_toc, satellite) ==
    [kind |-> number, satellite_id |-> satellite.prn,
     toc_s |-> toc_s(to_time_of_week(t_toc)[2])]

\* One encoder: None for another constellation, when toe() fails or when a
\* field read with `?` is absent.
to_rtcm(number, constellation, keys, e, t_toc, satellite) ==
    IF satellite.constellation # constellation THEN None
    ELSE IF IsErr(toe(e, satellite)) THEN None
    ELSE IF \E key \in keys : get_orbit_f64(e, key) = None THEN None
    ELSE Some(rtcm_message(number, t_toc, satellite))

\* Ephemeris::to_rtcm_gps1019
to_rtcm_gps_msg1019(e, t_toc, satellite) ==
    to_rtcm("Msg1019", "GPS", Msg1019Keys, e, t_toc, satellite)

\* Ephemeris::to_rtcm_qzss1044
to_rtcm_qzss_msg1044(e, t_toc, satellite) ==
    to_rtcm("Msg1044", "QZSS", Msg1044Keys, e, t_toc, satellite)

\* Ephemeris::to_rtcm_gal1045
to_rtcm_gal_msg1045(e, t_toc, satellite) ==
    to_rtcm("Msg1045", "Galileo", Msg1045Keys, e, t_toc, satellite)

\* Ephemeris::to_rtcm_glo1020: toe() is the only read.
to_rtcm_glo_msg1020(e, t_toc, satellite) ==
    to_rtcm("Msg1020", "Glonass", {}, e, t_toc, satellite)

\* Ephemeris::to_rtcm_bds1042
to_rtcm_bds_msg1042(e, t_toc, satellite) ==
    to_rtcm("Msg1042", "BeiDou", Msg1042Keys, e, t_toc, satellite)

RtcmConstellations == {"GPS", "QZSS", "Galileo", "Glonass", "BeiDou"}

\* The encoder the streamer applies to an entry of a supported constellation.
rtcm_encode(k) ==
    CASE k.sv.constellation = "GPS"     -> to_rtcm_gps_msg1019(k.eph, k.epoch, k.sv)
      [] k.sv.constellation = "QZSS"    -> to_rtcm_qzss_msg1044(k.eph, k.epoch, k.sv)
      [] k.sv.constellation = "Galileo" -> to_rtcm_gal_msg1045(k.eph, k.epoch, k.sv)
      [] k.sv.constellation = "Glonass" -> to_rtcm_glo_msg1020(k.eph, k.epoch, k.sv)
      [] k.sv.constellation = "BeiDou"  -> to_rtcm_bds_msg1042(k.eph, k.epoch, k.sv)

\* Streamer::next: the loop takes entries from the iterator; `?` returns
\* None from next() when the iterator is exhausted or the encoder fails.
RECURSIVE rtcm_next(_, _)
rtcm_next(rec, it) ==
    IF it > Len(rec) THEN [ephemeris_iter |-> it, item |-> None]
    ELSE IF rec[it].sv.constellation \in RtcmConstellations
         THEN [ephemeris_iter |-> it + 1, item |-> rtcm_encode(rec[it])]
         ELSE rtcm_next(rec, it + 1)

(***************************************************************************)
(* SpecRtcm: a streamer is deployed on a sampled Rinex and next() called   *)
(* until, and after, the iterator is exhausted.                            *)
(***************************************************************************)
\* A message with the given fields, the week and the time of week.
RtcmStore(names, bias) ==
    [with_week(with_orbit(UbxStore(names), "toe", F64(SampleToe)), SampleWeek)
        EXCEPT !.clock_bias = bias]

\* Messages of the sampled files: complete GPS, Galileo and BeiDou messages,
\* a GPS message lacking a field, a GLONASS and an SBAS message.
RtcmEntries ==
    {Entry([constellation |-> "GPS", prn |-> 5], SharedBase,
           RtcmStore(Msg1019Keys, 1)),
     Entry([constellation |-> "GPS", prn |-> 6], SharedBase + 1,
           RtcmStore(Msg1019Keys \ {"l2p"}, 2)),
     Entry([constellation |-> "Glonass", prn |-> 5], SharedBase + 2,
           RtcmStore(GloUbxKeys, 3)),
     Entry([constellation |-> "BeiDou", prn |-> 5], SharedBase + 3,
           RtcmStore(Msg1042Keys, 4)),
     Entry([constellation |-> "SBAS", prn |-> 5], SharedBase + 4,
           RtcmStore(GloUbxKeys, 5)),
     Entry([constellation |-> "Galileo", prn |-> 5], SharedBase + 9,
           RtcmStore(Msg1045Keys, 6))}

RtcmRecords ==
    {record_of(entries) :
        entries \in {x \in SUBSET RtcmEntries : Cardinality(x) <= MaxStream}}

\* Streamer::new
RtcmStreamer_new ==
    [ephemeris_iter |-> 1, last |-> [op |-> "none", item |-> None], out |-> <<>>]

InitRtcm ==
    /\ record \in RtcmRecords
    /\ rtcm = RtcmStreamer_new
    /\ eph = DefaultEphemeris
    /\ sv = [constellation |-> "GPS", prn |-> 5]
    /\ toc = 0
    /\ epoch = 0
    /\ ret = NoCall
    /\ StoreAtRest /\ SolverAtRest /\ ClockAtRest /\ ThreadsAtRest
    /\ StreamAtRest /\ ObsAtRest

\* streamer.next()
RtcmNext ==
    /\ rtcm # <<>>
    /\ LET r == rtcm_next(record, rtcm.ephemeris_iter)
       IN  rtcm' = [ephemeris_iter |-> r.ephemeris_iter,
                    last |-> [op |-> "next", item |-> r.item],
                    out |-> rtcm.out \o r.item]
    /\ UNCHANGED <<record, eph, sv, toc, epoch, ret, lastSet, solverVars,
                   clockVars, threadVars, streamVars, obsVars>>

NextRtcm == RtcmNext

SpecRtcm == InitRtcm /\ [][NextRtcm]_vars

\* C21: next() returns None only at the end of the stream, when every entry
\* of the record has been taken from the iterator and so no encodable frame
\* remains.
C21_NoneOnlyAtEndOfStream ==
    (rtcm # <<>> /\ rtcm.last.op = "next" /\ rtcm.last.item = None) =>
        /\ rtcm.ephemeris_iter > Len(record)
        /\ \A n \in 1..Len(record) :
               (/\ record[n].sv.constellation \in RtcmConstellations
                /\ IsSome(rtcm_encode(record[n]))) =>
                   \E m \in 1..Len(rtcm.out) : rtcm.out[m] = Unwrap(rtcm_encode(record[n]))


(***************************************************************************)
(* SignalObservation: one sampled signal with its optional LLI flags and   *)
(* optional SNR.  An SNR is the rank of its level, weakest first.          *)
(***************************************************************************)
LLIFlags_OK_OR_UNKNOWN       == 0
LLIFlags_LOCK_LOSS           == 1
LLIFlags_HALF_CYCLE_SLIP     == 2
LLIFlags_UNDER_ANTI_SPOOFING == 4

\* Every value of the LLIFlags bit set.
LLIFlags ==
    0..(LLIFlags_LOCK_LOSS + LLIFlags_HALF_CYCLE_SLIP
            + LLIFlags_UNDER_ANTI_SPOOFING)

\* The levels of the SNR enum, by rank.
SNRs == 0..9

\* Option::unwrap_or
unwrap_or(o, default) == IF IsSome(o) THEN Unwrap(o) ELSE default

\* SignalObservation::new
SignalObservation_new(satellite, observable, value) ==
    [satellite |-> satellite, value |-> value, observable |-> observable,
     lli_flags |-> None, signal_noise_ratio |-> None]

\* SignalObservation::with_snr
with_snr(s, signal_noise_ratio) ==
    [s EXCEPT !.signal_noise_ratio = Some(signal_noise_ratio)]

\* SignalObservation::with_lli_flags
with_lli_flags(s, flags) == [s EXCEPT !.lli_flags = Some(flags)]

\* SignalObservation::is_ok_snr
is_ok_snr(s, min_snr) ==
    IF intersects(unwrap_or(s.lli_flags, LLIFlags_OK_OR_UNKNOWN),
                  LLIFlags_OK_OR_UNKNOWN)
    THEN IF IsSome(s.signal_noise_ratio)
         THEN Unwrap(s.signal_noise_ratio) >= min_snr
         ELSE FALSE
    ELSE FALSE

(***************************************************************************)
(* SpecSignal: is_ok_snr asked of every combination of flags and SNR.      *)
(***************************************************************************)
SampleSignal ==
    SignalObservation_new([constellation |-> "GPS", prn |-> 5], "L1C", 100)

Signals ==
    LET flagged == {SampleSignal} \cup {with_lli_flags(SampleSignal, f) : f \in LLIFlags}
    IN  flagged \cup {with_snr(s, snr) : s \in flagged, snr \in SNRs}

InitSignal ==
    /\ signal \in Signals
    /\ merge = <<>>
    /\ record = <<>>
    /\ eph = DefaultEphemeris
    /\ sv = [constellation |-> "GPS", prn |-> 5]
    /\ toc = 0
    /\ epoch = 0
    /\ ret = NoCall
    /\ StoreAtRest /\ SolverAtRest /\ ClockAtRest /\ ThreadsAtRest
    /\ StreamAtRest /\ RtcmAtRest

\* signal.is_ok_snr(min_snr)
CallIsOkSnr(min_snr) ==
    /\ ret = NoCall
    /\ Call("is_ok_snr", [min_snr |-> min_snr, ok |-> is_ok_snr(signal, min_snr)])

NextSignal == \E min_snr \in SNRs : CallIsOkSnr(min_snr)

SpecSignal == InitSignal /\ [][NextSignal]_vars

\* C22: is_ok_snr(min_snr) is true exactly when the LLI flags are absent or
\* equal to OK_OR_UNKNOWN and the SNR is present and at least min_snr.
C22_OkWithMandatorySnr ==
    ret.op = "is_ok_snr" =>
        (ret.out.ok <=>
            /\ unwrap_or(signal.lli_flags, LLIFlags_OK_OR_UNKNOWN)
                   = LLIFlags_OK_OR_UNKNOWN
            /\ IsSome(signal.signal_noise_ratio)
            /\ Unwrap(signal.signal_noise_ratio) >= ret.out.min_snr)


(***************************************************************************)
(* Properties of satellite_under_test (checked under SpecHealth).          *)
(***************************************************************************)
\* C23: satellite_under_test is true only when 'health' is present, stored as
\* the modern BeiDou health enumeration and equal to UnhealthyTesting; it is
\* false in every other case.
C23_UnderTestOnlyBdsTesting ==
    ret.op = "satellite_under_test" =>
        (ret.out <=>
            /\ Has(eph, "health")
            /\ eph.orbits["health"].kind = "BdsHealth"
            /\ eph.orbits["health"].v = BdsHealth_UnhealthyTesting)

\* A BeiDou satellite in the testing state was reported under test.
C23_Witness ==
    /\ ret.op = "satellite_under_test"
    /\ Has(eph, "health")
    /\ eph.orbits["health"] = Item("BdsHealth", BdsHealth_UnhealthyTesting)
    /\ ret.out = TRUE

\* C28: no Ephemeris is both healthy and under test.
C28_HealthyExcludesUnderTest ==
    ret.op \in {"satellite_is_healthy", "satellite_under_test"} =>
        ~ /\ satellite_under_test(eph)
          /\ IsOk(satellite_is_healthy(eph))
          /\ satellite_is_healthy(eph).val

\* A BeiDou satellite in the Healthy state was reported healthy, and is not
\* under test.
C28_Witness ==
    /\ ret.op = "satellite_is_healthy"
    /\ Has(eph, "health")
    /\ eph.orbits["health"].kind = "BdsHealth"
    /\ IsOk(ret.out)
    /\ ret.out.val
    /\ ~satellite_under_test(eph)


(***************************************************************************)
(* Ties of the selector (checked under SpecSelect).                        *)
(***************************************************************************)
\* C24: when several usable records of the satellite are equally close to the
\* query epoch, the selector returns the one met first in the record's
\* iteration order: no usable record stored before the returned one is as
\* close to t as it is.
C24_FirstSeenWinsTies ==
    (Selected /\ ~is_sbas(sv.constellation) /\ IsSome(ret.out)) =>
        \E n \in StoredFor(sv) :
            /\ Unwrap(ret.out).toc = record[n].epoch
            /\ Unwrap(ret.out).eph = record[n].eph
            /\ \A m \in StoredFor(sv) :
                   (m < n /\ Usable(m, sv, epoch)) =>
                       Abs(epoch - ToeOf(m, sv)) > Abs(epoch - ToeOf(n, sv))

\* Two usable records with different ToE are stored, t is exactly midway
\* between them and the earlier entry was returned.
C24_Witness ==
    /\ Selected /\ sv.constellation = "GPS" /\ IsSome(ret.out)
    /\ \E n, m \in StoredFor(sv) :
           /\ n < m
           /\ Usable(n, sv, epoch) /\ Usable(m, sv, epoch)
           /\ ToeOf(n, sv) # ToeOf(m, sv)
           /\ Abs(epoch - ToeOf(m, sv)) = Abs(epoch - ToeOf(n, sv))
           /\ Unwrap(ret.out).toc = record[n].epoch


(***************************************************************************)
(* What clock_correction reads (checked under SpecClock).                  *)
(***************************************************************************)
\* The record holding nothing but the clock terms of e.
ClockTermsOnly(e) ==
    [DefaultEphemeris EXCEPT !.clock_bias = e.clock_bias,
                             !.clock_drift = e.clock_drift,
                             !.clock_drift_rate = e.clock_drift_rate]

\* C25: clock_correction fails only with NotSupported, exactly when the
\* constellation of the satellite keeps no time scale; otherwise it succeeds
\* whatever the orbit store holds (nothing, no 'toe', no 'week'), and its
\* result is that of a record holding the same three clock terms and nothing
\* else, for a satellite of any constellation that keeps a time scale.
C25_ClockOnlyQuery ==
    (clk.pc = "returned" /\ ret.op = "clock_correction") =>
        /\ IsErr(ret.out) <=> timescale(sv.constellation) = None
        /\ IsErr(ret.out) => ret.out.err = "NotSupported"
        /\ IsOk(ret.out) =>
               \A c \in {"GPS", "Glonass", "SBAS"} :
                   ret.out.val =
                       clock_correction(ClockTermsOnly(eph),
                                        [constellation |-> c, prn |-> 6],
                                        toc, epoch, clk.num_iter).val

\* A GPS record with an empty orbit store and a clock bias was corrected.
C25_Witness ==
    /\ clk.pc = "returned" /\ ret.op = "clock_correction"
    /\ DOMAIN eph.orbits = {}
    /\ sv.constellation = "GPS"
    /\ eph.clock_bias = 5000 /\ clk.num_iter = 2
    /\ IsOk(ret.out)
    /\ ret.out.val # from_seconds(F64Zero)


(***************************************************************************)
(* Merging of observation records.  A Record maps its epoch keys to the    *)
(* Observations of the epoch, the signals in the order they were pushed.   *)
(***************************************************************************)
Observations(signals) == [clock |-> None, signals |-> signals]

\* |sig| sig.satellite == rhs.satellite && sig.observable == rhs.observable
same_signal(sig, rhs) ==
    sig.satellite = rhs.satellite /\ sig.observable = rhs.observable

\* Iterator::find over lhs.signals: the position of the first match, 0 if none.
find(signals, rhs) ==
    LET found == {n \in 1..Len(signals) : same_signal(signals[n], rhs)}
    IN  IF found = {} THEN 0 ELSE CHOOSE n \in found : \A m \in found : n <= m

\* The body run on a found signal, taking whatever the right-hand side defines.
fill_overwriting(lhs, rhs) ==
    [lhs EXCEPT
        !.lli_flags = IF IsSome(rhs.lli_flags) THEN rhs.lli_flags ELSE @,
        !.signal_noise_ratio =
            IF IsSome(rhs.signal_noise_ratio) THEN rhs.signal_noise_ratio ELSE @]

\* The body run on a found signal: LLI flags and SNR are taken from rhs when
\* rhs defines them and lhs does not.
fill(lhs, rhs) ==
    [lhs EXCEPT
        !.lli_flags =
            IF IsSome(rhs.lli_flags) /\ lhs.lli_flags = None
            THEN Some(Unwrap(rhs.lli_flags)) ELSE @,
        !.signal_noise_ratio =
            IF IsSome(rhs.signal_noise_ratio) /\ lhs.signal_noise_ratio = None
            THEN Some(Unwrap(rhs.signal_noise_ratio)) ELSE @]

\* for rhs in rhs.signals.iter() { .. }
RECURSIVE merge_signals(_, _)
merge_signals(signals, rhs_signals) ==
    IF rhs_signals = <<>> THEN signals
    ELSE LET rhs == Head(rhs_signals)
             n   == find(signals, rhs)
         IN  merge_signals(
                 IF n # 0 THEN [signals EXCEPT ![n] = fill(@, rhs)]
                 ELSE Append(signals, rhs),
                 Tail(rhs_signals))

\* for (k, rhs) in rhs.iter() { .. }, over the keys left to visit
RECURSIVE merge_epochs(_, _, _)
merge_epochs(rec, rhs, keys) ==
    IF keys = {} THEN rec
    ELSE LET k == CHOOSE x \in keys : \A y \in keys : x <= y
         IN  merge_epochs(
                 IF k \in DOMAIN rec
                 THEN [rec EXCEPT ![k].signals = merge_signals(@, rhs[k].signals)]
                 ELSE [x \in DOMAIN rec \cup {k} |->
                          IF x = k THEN rhs[k] ELSE rec[x]],
                 rhs, keys \ {k})

\* qc::merge::obs::merge_mut: the record after the call
merge_mut(rec, rhs) == merge_epochs(rec, rhs, DOMAIN rhs)

\* qc::merge::merge_mut_option: lhs after the call
merge_mut_option(lhs, rhs) ==
    IF lhs = None
    THEN IF IsSome(rhs) THEN Some(Unwrap(rhs)) ELSE lhs
    ELSE lhs

(***************************************************************************)
(* SpecMerge: two records, or two optional fields, are merged.  The        *)
(* signals of the left-hand file carry the value 100, those of the         *)
(* right-hand file the value 200.                                          *)
(***************************************************************************)
MergeSV == [constellation |-> "GPS", prn |-> 5]

SignalPool(value, flags, snr) ==
    LET bare == {SignalObservation_new(MergeSV, o, value) : o \in {"L1C", "L2C"}}
        flagged == bare \cup {with_lli_flags(s, flags) : s \in bare}
    IN  flagged \cup {with_snr(s, snr) : s \in flagged}

\* The signal lists of one epoch: at most two signals of the pool.
SignalLists(pool) ==
    {<<>>} \cup {<<s>> : s \in pool} \cup {<<s, t>> : s \in pool, t \in pool}

\* The records holding epoch `shared` or not, and epoch `own` or not.
MergeRecords(pool, shared, own) ==
    LET alone == (own :> Observations(<<CHOOSE s \in pool :
                                           /\ s.observable = "L1C"
                                           /\ s.lli_flags = None
                                           /\ s.signal_noise_ratio = None>>))
    IN  {<<>>, alone}
        \cup {(shared :> Observations(l)) : l \in SignalLists(pool)}
        \cup {(shared :> Observations(l)) @@ alone : l \in SignalLists(pool)}

LhsRecords ==
    MergeRecords(SignalPool(100, LLIFlags_LOCK_LOSS, 3), 1, 2)

RhsRecords ==
    MergeRecords(SignalPool(200, LLIFlags_HALF_CYCLE_SLIP, 7), 1, 3)

MergeOptions == {None, Some(100), Some(200)}

MergeIdle(kind, lhs, rhs) ==
    [op |-> "none", kind |-> kind, lhs |-> lhs, rhs |-> rhs, out |-> None]

InitMerge ==
    /\ merge \in {MergeIdle("record", l, r) : l \in LhsRecords, r \in RhsRecords}
                 \cup {MergeIdle("option", l, r) : l \in MergeOptions,
                                                   r \in MergeOptions}
    /\ signal = <<>>
    /\ record = <<>>
    /\ eph = DefaultEphemeris
    /\ sv = [constellation |-> "GPS", prn |-> 5]
    /\ toc = 0
    /\ epoch = 0
    /\ ret = NoCall
    /\ StoreAtRest /\ SolverAtRest /\ ClockAtRest /\ ThreadsAtRest
    /\ StreamAtRest /\ RtcmAtRest

\* merge_mut(&mut lhs, &rhs)
MergeMut ==
    /\ merge.op = "none" /\ merge.kind = "record"
    /\ merge' = [merge EXCEPT !.op = "merge_mut",
                              !.out = merge_mut(merge.lhs, merge.rhs)]
    /\ UNCHANGED <<record, eph, sv, toc, epoch, ret, lastSet, solverVars,
                   clockVars, threadVars, streamVars, rtcmVars, signal>>

\* merge_mut_option(&mut lhs, &rhs)
MergeMutOption ==
    /\ merge.op = "none" /\ merge.kind = "option"
    /\ merge' = [merge EXCEPT !.op = "merge_mut_option",
                              !.out = merge_mut_option(merge.lhs, merge.rhs)]
    /\ UNCHANGED <<record, eph, sv, toc, epoch, ret, lastSet, solverVars,
                   clockVars, threadVars, streamVars, rtcmVars, signal>>

NextMerge == MergeMut \/ MergeMutOption

SpecMerge == InitMerge /\ [][NextMerge]_vars

\* Some signal of rhs at epoch k, the same as sig, defines its field f as v.
RhsDefines(k, sig, f, v) ==
    /\ k \in DOMAIN merge.rhs
    /\ \E n \in 1..Len(merge.rhs[k].signals) :
           /\ same_signal(merge.rhs[k].signals[n], sig)
           /\ merge.rhs[k].signals[n][f] = v

\* Field f of a signal of lhs after the merge: kept when it was defined,
\* otherwise still absent or what rhs defines for that signal.
KeptOrFilled(k, before, after, f) ==
    /\ IsSome(before[f]) => after[f] = before[f]
    /\ (before[f] = None /\ after[f] # None) => RhsDefines(k, before, f, after[f])

\* C26: merging never overwrites what the left-hand side defines.  After
\* merge_mut every signal of lhs is still at its place with its value and the
\* LLI flags and SNR it had, an LLI or SNR it lacked is either still absent or
\* what rhs defines for that signal, the epochs lhs lacked are those of rhs,
\* and every signal of rhs that lhs lacked follows the signals of lhs; after
\* merge_mut_option lhs holds rhs only if it was None.
C26_MergeKeepsLeftHandSide ==
    /\ merge.op = "merge_mut" =>
           /\ DOMAIN merge.out = DOMAIN merge.lhs \cup DOMAIN merge.rhs
           /\ \A k \in DOMAIN merge.lhs :
                  /\ merge.out[k].clock = merge.lhs[k].clock
                  /\ Len(merge.out[k].signals) >= Len(merge.lhs[k].signals)
                  /\ \A n \in 1..Len(merge.lhs[k].signals) :
                         LET before == merge.lhs[k].signals[n]
                             after  == merge.out[k].signals[n]
                         IN  /\ same_signal(after, before)
                             /\ after.value = before.value
                             /\ KeptOrFilled(k, before, after, "lli_flags")
                             /\ KeptOrFilled(k, before, after, "signal_noise_ratio")
           /\ \A k \in DOMAIN merge.rhs \ DOMAIN merge.lhs :
                  merge.out[k] = merge.rhs[k]
           /\ \A k \in DOMAIN merge.rhs \cap DOMAIN merge.lhs :
                  \A n \in 1..Len(merge.rhs[k].signals) :
                      find(merge.lhs[k].signals, merge.rhs[k].signals[n]) = 0 =>
                          \E m \in (Len(merge.lhs[k].signals) + 1)
                                       ..Len(merge.out[k].signals) :
                              /\ same_signal(merge.out[k].signals[m],
                                             merge.rhs[k].signals[n])
                              /\ merge.out[k].signals[m].value
                                     = merge.rhs[k].signals[n].value
    /\ merge.op = "merge_mut_option" =>
           /\ IsSome(merge.lhs) => merge.out = merge.lhs
           /\ merge.lhs = None => merge.out = merge.rhs

\* Both files hold L1C of the shared epoch, with LLI flags on both sides and
\* an SNR on the right-hand side only: the merged signal keeps its value and
\* flags and takes the SNR; the right-hand file also brought L2C and an epoch.
C26_Witness ==
    /\ merge.op = "merge_mut"
    /\ 1 \in DOMAIN merge.lhs /\ 1 \in DOMAIN merge.rhs /\ 3 \in DOMAIN merge.rhs
    /\ Len(merge.lhs[1].signals) = 1 /\ Len(merge.rhs[1].signals) = 2
    /\ merge.lhs[1].signals[1].observable = "L1C"
    /\ merge.lhs[1].signals[1].lli_flags = Some(LLIFlags_LOCK_LOSS)
    /\ merge.lhs[1].signals[1].signal_noise_ratio = None
    /\ merge.rhs[1].signals[1].observable = "L1C"
    /\ merge.rhs[1].signals[1].lli_flags = Some(LLIFlags_HALF_CYCLE_SLIP)
    /\ merge.rhs[1].signals[1].signal_noise_ratio = Some(7)
    /\ merge.rhs[1].signals[2].observable = "L2C"
    /\ merge.out[1].signals[1].value = 100
    /\ merge.out[1].signals[1].lli_flags = Some(LLIFlags_LOCK_LOSS)
    /\ merge.out[1].signals[1].signal_noise_ratio = Some(7)
    /\ Len(merge.out[1].signals) = 2
    /\ 3 \in DOMAIN merge.out


(***************************************************************************)
(* A pending packet and a buffer too small (checked under SpecStream).     *)
(***************************************************************************)
\* The pending packet of the streamer
Pending == SubSeq(ubx.buffer, 1, ubx.pending_size)

\* C27: a read made while a packet is pending fails with StorageFull exactly
\* when the buffer is smaller than that packet, and then changes nothing of
\* the streamer: the packet stays pending, no byte is reported and the
\* iterator stays where it was; a read with a buffer large enough starts with
\* the pending packet.
C27_StorageFullKeepsPending ==
    [][(ubx # <<>> /\ ubx.pending_size > 0) =>
          /\ IsErr(ubx'.last.out) <=> ubx'.last.len < ubx.pending_size
          /\ IsErr(ubx'.last.out) =>
                 /\ ubx'.last.out.err = "StorageFull"
                 /\ ubx'.last.bytes = <<>>
                 /\ ubx'.pending_size = ubx.pending_size
                 /\ ubx'.buffer = ubx.buffer
                 /\ ubx'.ephemeris_iter = ubx.ephemeris_iter
                 /\ ubx'.out = ubx.out
          /\ IsOk(ubx'.last.out) =>
                 /\ ubx'.last.out.val >= ubx.pending_size
                 /\ SubSeq(ubx'.last.bytes, 1, ubx.pending_size) = Pending]_vars

\* A read failed on a pending BeiDou packet, which is still pending.
C27_Witness ==
    /\ ubx # <<>>
    /\ ubx.last.op = "read"
    /\ IsErr(ubx.last.out)
    /\ ubx.last.len < ubx.pending_size
    /\ ubx.pending_size = MgaBdsEphLen
    /\ Len(ubx.out) > 0


(***************************************************************************)
(* SpecSupport: a message is stored under its satellite and its time of    *)
(* ephemeris, its validity and its selection are asked, for satellites of  *)
(* every constellation.                                                    *)
(***************************************************************************)
InitSupport ==
    /\ eph \in ToeEphs
    /\ sv \in {s \in SVs : s.prn = 5}
    /\ toc \in SampleTocs
    /\ epoch \in SampleEpochs
    /\ record = record_insert(<<>>, Entry(sv, toc, eph))
    /\ ret = NoCall
    /\ StoreAtRest /\ SolverAtRest /\ ClockAtRest
    /\ ThreadsAtRest /\ StreamAtRest
    /\ RtcmAtRest /\ ObsAtRest

NextSupport == CallToe \/ CallIsValid \/ CallSelection(sv, epoch)

SpecSupport == InitSupport /\ [][NextSupport]_vars

\* The time scale toe counts in, for the constellations it serves.
ToeTimeScale(c) ==
    CASE c \in {"GPS", "Galileo"} -> "GPST"
      [] c = "QZSS"               -> "QZSST"
      [] c = "BeiDou"             -> "BDT"

\* C29: toe returns an Epoch only for GPS, Galileo, QZSS and BeiDou, counted
\* in GPST, GPST, QZSST and BDT, and fails for every other constellation;
\* IRNSS has a validity duration, yet is_valid is false for every IRNSS
\* satellite and the selector returns nothing for an IRNSS satellite.
C29_IrnssNeverUsable ==
    /\ ret.op = "toe" =>
           /\ IsOk(ret.out) =>
                  /\ sv.constellation \in {"GPS", "Galileo", "QZSS", "BeiDou"}
                  /\ ret.out.val =
                         TimeScaleRef(ToeTimeScale(sv.constellation))
                             + eph.orbits["week"].v * WeekSeconds
                             + (IF eph.orbits["toe"].v < 0 THEN 0
                                ELSE eph.orbits["toe"].v)
           /\ sv.constellation \notin {"GPS", "Galileo", "QZSS", "BeiDou"}
                  => IsErr(ret.out)
    /\ (ret.op = "is_valid" /\ sv.constellation = "IRNSS") =>
           /\ IsSome(validity_duration("IRNSS"))
           /\ ret.out = FALSE
    /\ (Selected /\ sv.constellation = "IRNSS") => ret.out = None

\* The selector was asked for an IRNSS satellite at the very time of
\* ephemeris of the one message stored for it.
C29_Witness ==
    /\ Selected /\ sv.constellation = "IRNSS"
    /\ Len(record) = 1 /\ record[1].sv = sv
    /\ Has(eph, "week") /\ Has(eph, "toe")
    /\ epoch = from_time_of_week(eph.orbits["week"].v, eph.orbits["toe"].v, "GPST")
    /\ epoch = toc
    /\ ret.out = None


\* C30: for a GLONASS or SBAS satellite the three velocity components of the
\* returned vector are 0, whatever velX, velY, velZ the record stores.
C30_CartesianVelocityIsZero ==
    (Resolved /\ Cartesian(sv) /\ IsOk(ret.out)) =>
        ret.out.val.vel = <<F64Zero, F64Zero, F64Zero>>

\* A GLONASS message with a stored velocity was resolved away from its ToC:
\* the position moved by the velocity, the returned velocity is zero.
C30_Witness ==
    /\ Resolved /\ sv.constellation = "Glonass" /\ IsOk(ret.out)
    /\ eph.orbits["velX"].v = 0 - 7
    /\ epoch # toc
    /\ ret.out.val.pos[1] # F64OfInt(eph.orbits["posX"].v)
    /\ ret.out.val.vel = <<F64Zero, F64Zero, F64Zero>>

====
